---------------------------- MODULE Spec2Model ----------------------------
(* Model of pw_pgsql2latex.py: the line tokenizer (pgsql_tokenizer), the   *)
(* directive/table parser (pgsql_parser), the Relation store and the order *)
(* in which main renders the parsed records.                               *)
(*                                                                         *)
(* Text is modelled structurally.  A string that may contain commas is a   *)
(* sequence of comma-free pieces (<<"Input r", "s">> is "Input r, s"), so  *)
(* that re.split with a maxsplit is computed rather than assumed.  A data  *)
(* line is its text together with the separator it contains and the cells *)
(* that separator delimits, so that line.split(value_sep) depends on the   *)
(* active separator.                                                       *)
EXTENDS Integers, Sequences, FiniteSets, TLC

\* ------------------------------------------------------------------ bounds
MaxTokens == 4   \* directives, Header tokens and Tuple tokens per input
MaxConfigs == 3  \* config directives at the head of a fixed input
MaxLines == 4    \* lines of a fixed input
MaxIntervals == 3  \* rows of the input file of p-printhist.py
MaxTime == 3       \* largest time point in the input file of p-printhist.py

\* --------------------------------------------------------------- constants
STATE_FIRSTLINE == 0
STATE_OUTSIDE   == 1
STATE_HEADER    == 2
STATE_TUPLES    == 3

INPUT_TYPE_POSTGRES == 0
INPUT_TYPE_TSV      == 1

\* ------------------------------------------------------------- input lines
BlankLine == [kind |-> "blank"]

\* A line starting with "--".  tsv: it matches r'--\s*TIKZ: TSV'.  tikz: its
\* text matches r'TIKZ:\s*([a-z\-]+?)\s*,\s*(.*)+?', with group 1 = keyword
\* and group 2 = body (the comma-free pieces of the body, in order).
CommentLine(tsv, tikz, keyword, body) ==
    [kind |-> "comment", tsv |-> tsv, tikz |-> tikz, keyword |-> keyword, body |-> body]

TsvMarkerLine == CommentLine(TRUE, FALSE, "", <<>>)                \* -- TIKZ: TSV
RuleLine      == CommentLine(FALSE, FALSE, "", <<>>)               \* ---+----+----
RelRLine      == CommentLine(FALSE, TRUE, "relation", <<"r", "ts", "te", "", "Input relation r">>)
RelSLine      == CommentLine(FALSE, TRUE, "relation-table", <<"s", "ts", "", "te", "S", "filtered">>)
TimelineLine  == CommentLine(FALSE, TRUE, "timeline", <<"0", "10", "1", "time", "in days">>)
LabelLine     == CommentLine(FALSE, TRUE, "config", <<"label", "input001">>)
CaptionLine   == CommentLine(FALSE, TRUE, "config", <<"caption", "Input r", "s">>)
ScaleLine     == CommentLine(FALSE, TRUE, "config", <<"xscale", "2">>)
RescaleLine   == CommentLine(FALSE, TRUE, "config", <<"xscale", "3">>)
RelBareLine   == CommentLine(FALSE, TRUE, "relation", <<"r", "ts", "te", "", "">>)
BadRelLine    == CommentLine(FALSE, TRUE, "relation", <<"r", "ts", "te">>)
BadTimeLine   == CommentLine(FALSE, TRUE, "timeline", <<"0", "10">>)
LegendLine    == CommentLine(FALSE, TRUE, "legend", <<"x">>)
\* "-- TIKZ: relation": no comma follows the keyword, the text does not match
BareRelLine   == CommentLine(FALSE, FALSE, "relation", << >>)

CommentLines == { TsvMarkerLine, RuleLine, RelRLine, RelSLine, TimelineLine,
                  LabelLine, CaptionLine, BadRelLine, BadTimeLine, LegendLine,
                  BareRelLine }

\* A non-blank line that does not start with "--".  sep: the separator that
\* occurs in the text ("" when none); cells: the stripped fields between
\* occurrences of sep; rows: group 1 of r'\((\d+?)\s\w*\)' or "" when the
\* text does not match it.
DataLine(text, sep, cells, rows) ==
    [kind |-> "data", text |-> text, sep |-> sep, cells |-> cells, rows |-> rows]

HeadLine  == DataLine("a | ts | te", "|", <<"a", "ts", "te">>, "")
RowLine   == DataLine("B | 1 | 7", "|", <<"B", "1", "7">>, "")
TabLine   == DataLine("a\tts", "\t", <<"a", "ts">>, "")
CountLine == DataLine("(2 rows)", "", <<"(2 rows)">>, "2")

DataLines == { HeadLine, RowLine, TabLine, CountLine }

Lines == {BlankLine} \cup CommentLines \cup DataLines

\* input_text when the lines are not fixed beforehand: every line of Lines
\* may come next, and the lines read are not counted
Unknown == << [kind |-> "unknown"] >>

\* ------------------------------------------------------------------- state
VARIABLES
    input_text,              \* main: input_text, the lines given to pgsql_tokenizer
    lineno,                  \* pgsql_tokenizer: the lines of input_text read so far
    state,                   \* pgsql_tokenizer: state
    input_type,              \* pgsql_tokenizer: input_type
    value_sep,               \* pgsql_tokenizer: value_sep
    token,                   \* the token yielded for the line just read
    configs,                 \* pgsql_parser: configs
    tables,                  \* pgsql_parser: tables (the Relation objects)
    table_count,             \* pgsql_parser: table_count
    configs_count_relation,  \* pgsql_parser: configs_count_relation
    configs_count_timeline,  \* pgsql_parser: configs_count_timeline
    pc,                      \* position in main; "raised" after an exception
    err,                     \* the exception that ended the run, NoError if none
    output_type,             \* main: args.output_type, once it has been read
    table,                   \* main: table, the tables formatted so far
    cfg,                     \* main: cfg
    figure,                  \* main: figure
    outfile,                 \* main: what has been written to outfile, in order
    blocks,                  \* history: Header token and Tuple tokens per block
    directives,              \* history: the directives that were dispatched
    statistics,              \* p-printhist.py, main: statistics
    histfiles                \* p-printhist.py: the files written, by name

vars == << input_text, lineno, state, input_type, value_sep, token, configs, tables, table_count,
           configs_count_relation, configs_count_timeline, pc, err, output_type,
           table, cfg, figure, outfile, blocks, directives, statistics,
           histfiles >>

histvars   == << statistics, histfiles >>
scanvars   == << input_text, lineno >>
tokvars    == << state, input_type, value_sep >>
mainvars   == << output_type, table, cfg, figure, outfile >>
parservars == << configs, tables, table_count, configs_count_relation,
                 configs_count_timeline >>


\* ------------------------------------------------------------ text helpers
\* A comma-free string as a one-piece text.
Str(s) == << s >>

\* fault: the body is split at every comma
SplitAll(body, n) == [i \in 1..Len(body) |-> Str(body[i])]

\* re.split(r'\s*,\s*', body, n): at most n splits; what is left after the
\* n-th comma stays one field, commas included.
SplitMax(body, n) ==
    IF Len(body) <= n
    THEN [i \in 1..Len(body) |-> Str(body[i])]
    ELSE [i \in 1..(n + 1) |-> IF i <= n THEN Str(body[i])
                                         ELSE SubSeq(body, n + 1, Len(body))]

\* line.split(value_sep) followed by strip() of every field.
SplitCells(line, sep) ==
    IF line.sep = sep THEN line.cells ELSE << line.text >>

\* re.search(r'\s*[^\|]+?\s*\|\s*[^\|]+?', line): a "|" with a non-"|"
\* character on both sides (every cell of the modelled lines is non-empty).
IsPgHeader(line) == line.sep = "|" /\ Len(line.cells) >= 2

\* re.search(r'--\s*TIKZ: TSV', line)
IsTsvMarker(line) == line.kind = "comment" /\ line.tsv

\* dict(zip(keys, items)): pairs up to the shorter of the two lists.
ZipDict(keys, items) ==
    LET n == IF Len(keys) < Len(items) THEN Len(keys) ELSE Len(items)
    IN  [k \in {keys[i] : i \in 1..n} |-> items[CHOOSE i \in 1..n : keys[i] = k]]

\* ---------------------------------------------------------------- Relation
\* desc is not assigned by __init__; Unset stands for the missing attribute.
Unset == << >>

Relation ==
    [schema |-> << >>, values |-> << >>, tsid |-> -1, teid |-> -1, ypos |-> -1,
     tsname |-> Str(""), tename |-> Str(""), yposname |-> Str(""),
     name |-> Str(""), desc |-> Unset, relType |-> 0]

setSchema(rel, schema) == [rel EXCEPT !.schema = schema]

\* The guard of addTuple; the else branch evaluates  str + list.
addTupleOk(rel, tup) == Len(tup) = Len(rel.schema)

addTuple(rel, tup) == [rel EXCEPT !.values = Append(@, tup)]

RECURSIVE setMetaDataFrom(_, _, _, _, _)
setMetaDataFrom(rel, attnum, tsname, tename, yposname) ==
    IF attnum > Len(rel.schema) THEN rel
    ELSE LET column == Str(rel.schema[attnum])
             r == IF tsname = column THEN [rel EXCEPT !.tsid = attnum - 1]
                  ELSE IF tename = column THEN [rel EXCEPT !.teid = attnum - 1]
                  ELSE IF yposname = column THEN [rel EXCEPT !.ypos = attnum - 1]
                  ELSE rel
         IN  setMetaDataFrom(r, attnum + 1, tsname, tename, yposname)

\* Relation.setMetaData: the column indexes (0-based) of the three names.
\* It raises when the result has tsid = -1.  No code path calls it.
setMetaData(rel, tsname, tename, yposname) ==
    setMetaDataFrom(rel, 1, tsname, tename, yposname)

\* ------------------------------------------------------------------ errors
NoError == [type |-> "", msg |-> ""]

\* raise_error(msg, hint): ValueError
ValueError(msg) == [type |-> "ValueError", msg |-> msg]

\* fault: the message quotes an empty comment, not the one given
ErrRelationParamsBare(text) ==
    [type |-> "ValueError", given |-> CommentLine(FALSE, FALSE, "", << >>),
     msg |-> "Not enough parameters for TIKZ relation or TIKZ relation-table given."]

\* the messages that end with the text of the COMMENT token (token[1])
ErrRelationParams(text) ==
    [type |-> "ValueError", given |-> text,
     msg |-> "Not enough parameters for TIKZ relation or TIKZ relation-table given."]
ErrWrongTimeline(text) ==
    [type |-> "ValueError", given |-> text, msg |-> "Wrong TIKZ timeline string found"]

ErrSecondTimeline   == ValueError("More than one TIKZ timeline string found")
ErrNoTables         == ValueError("No tables found! Is this a valid input file?")
ErrTooFewConfigs    == ValueError("We do not have enough TIKZ relation config strings")
ErrTooFewTables     == ValueError("We do not have enough table outputs compared to the amount of TIKZ relation config strings")
\* tables[table_count] past the end of the list
IndexError          == [type |-> "IndexError", msg |-> "list index out of range"]
\* "Too many tuple columns for the actual schema: " + self.schema
TypeError           == [type |-> "TypeError", msg |-> "can only concatenate str (not \"list\") to str"]

\* ------------------------------------------------------------------ tokens
\* p-printhist.py: statistics before the input file is read
NoStatistics == [lengths |-> << >>, starts |-> << >>, ends |-> << >>]

NoToken == [kind |-> "NONE"]
Token(kind, value) == [kind |-> kind, value |-> value]

\* the state of a run of main before the first line of input_text is read
Started ==
    /\ lineno = 0
    /\ state = STATE_FIRSTLINE
    /\ input_type = INPUT_TYPE_POSTGRES
    /\ value_sep = "|"
    /\ token = NoToken
    /\ configs = << >>
    /\ tables = << >>
    /\ table_count = 0
    /\ configs_count_relation = 0
    /\ configs_count_timeline = 0
    /\ pc = "parse"
    /\ err = NoError
    /\ output_type = ""
    /\ table = << >>
    /\ cfg = << >>
    /\ figure = << >>
    /\ outfile = << >>
    /\ blocks = << >>
    /\ directives = << >>
    /\ statistics = NoStatistics
    /\ histfiles = << >>

Init ==
    /\ input_text = Unknown
    /\ Started

\* ---------------------------------------------------- pgsql_parser handlers
Raise(e) ==
    /\ pc' = "raised"
    /\ err' = e
    /\ UNCHANGED parservars

Continue ==
    /\ pc' = pc
    /\ err' = err

\* fault: the record is put in front of the list
PrependRecord(cfgs, record) == << record >> \o cfgs

\* configs.append(record)
AppendRecord(cfgs, record) == Append(cfgs, record)

\* the history of dispatched directives
Dispatched(line) ==
    directives' = Append(directives, [keyword |-> line.keyword, body |-> line.body])

\* comment_type == 'config'
ParserConfig(line) ==
    LET listitems == << line.keyword >> \o SplitMax(line.body, 1)
    IN  /\ configs' = AppendRecord(configs, ZipDict(<<"type", "key", "value">>, listitems))
        /\ UNCHANGED << tables, table_count, configs_count_relation, configs_count_timeline >>
        /\ Continue

\* fault: the comparison is turned round
DirectiveReusesBound == configs_count_relation > table_count

\* the slot a relation directive binds: an existing Relation or a new one
DirectiveReuses == configs_count_relation < table_count

\* fault: a directive makes a Relation without counting it
ParserRelationUncounted(line) ==
    LET listitems == << line.keyword >> \o SplitMax(line.body, 4)
        slot   == Len(tables) + 1
        bound  == [Relation EXCEPT !.name = listitems[2], !.tsname = listitems[3],
                                   !.tename = listitems[4], !.yposname = listitems[5],
                                   !.desc = listitems[6]]
    IN  IF Len(listitems) # 6 THEN Raise(ErrRelationParams(line))
        ELSE /\ tables' = Append(tables, bound)
             /\ configs' = AppendRecord(configs, [type |-> listitems[1], relation |-> slot])
             /\ UNCHANGED << table_count, configs_count_relation, configs_count_timeline >>
             /\ Continue

\* comment_type in ['relation', 'relation-table']
ParserRelation(line) ==
    LET listitems == << line.keyword >> \o SplitMax(line.body, 4)
        slot   == IF DirectiveReuses THEN table_count + 1 ELSE Len(tables) + 1
        store  == IF DirectiveReuses THEN tables ELSE Append(tables, Relation)
        bound  == [store[slot] EXCEPT !.name = listitems[2], !.tsname = listitems[3],
                                       !.tename = listitems[4], !.yposname = listitems[5],
                                       !.desc = listitems[6]]
    IN  IF Len(listitems) # 6 THEN Raise(ErrRelationParams(line))
        ELSE IF DirectiveReuses /\ table_count >= Len(tables) THEN Raise(IndexError)
        ELSE /\ tables' = [store EXCEPT ![slot] = bound]
             /\ configs_count_relation' =
                    IF DirectiveReuses THEN configs_count_relation
                                       ELSE configs_count_relation + 1
             /\ configs' = AppendRecord(configs, [type |-> listitems[1], relation |-> slot])
             /\ UNCHANGED << table_count, configs_count_timeline >>
             /\ Continue

\* fault: the guard compares with the wrong count
SecondTimelineOffByOne == configs_count_timeline = 2

\* the guard that rejects a second timeline directive
SecondTimeline == configs_count_timeline = 1

\* fault: the record of a second timeline is appended before the error
ParserTimelineLate(line) ==
    LET listitems == << line.keyword >> \o SplitMax(line.body, 3)
    IN  IF Len(listitems) # 5 THEN Raise(ErrWrongTimeline(line))
        ELSE /\ configs_count_timeline' = configs_count_timeline + 1
             /\ configs' = AppendRecord(configs,
                               ZipDict(<<"type", "from", "to", "step", "desc">>, listitems))
             /\ UNCHANGED << tables, table_count, configs_count_relation >>
             /\ IF SecondTimeline THEN pc' = "raised" /\ err' = ErrSecondTimeline
                                  ELSE Continue

\* comment_type == 'timeline'
ParserTimeline(line) ==
    LET listitems == << line.keyword >> \o SplitMax(line.body, 3)
    IN  IF SecondTimeline THEN Raise(ErrSecondTimeline)
        ELSE IF Len(listitems) # 5 THEN Raise(ErrWrongTimeline(line))
        ELSE /\ configs_count_timeline' = configs_count_timeline + 1
             /\ configs' = AppendRecord(configs,
                               ZipDict(<<"type", "from", "to", "step", "desc">>, listitems))
             /\ UNCHANGED << tables, table_count, configs_count_relation >>
             /\ Continue

\* the slot a Header token fills: a Relation made by a directive or a new one
HeaderReuses == configs_count_relation > table_count

\* fault: a Header token fills the Relation made last
ParserHeaderLast(schema) ==
    LET slot  == IF HeaderReuses THEN Len(tables) ELSE Len(tables) + 1
        store == IF HeaderReuses THEN tables ELSE Append(tables, Relation)
    IN  /\ tables' = [store EXCEPT ![slot] = setSchema(store[slot], schema)]
        /\ table_count' = IF HeaderReuses THEN table_count ELSE table_count + 1
        /\ UNCHANGED << configs, configs_count_relation, configs_count_timeline >>
        /\ Continue

\* token[0] == 'HEADER'
ParserHeader(schema) ==
    LET slot  == IF HeaderReuses THEN table_count + 1 ELSE Len(tables) + 1
        store == IF HeaderReuses THEN tables ELSE Append(tables, Relation)
    IN  /\ tables' = [store EXCEPT ![slot] = setSchema(store[slot], schema)]
        /\ table_count' = IF HeaderReuses THEN table_count ELSE table_count + 1
        /\ UNCHANGED << configs, configs_count_relation, configs_count_timeline >>
        /\ Continue

\* token[0] == 'TUPLE'
ParserTuple(tup) ==
    IF table_count >= Len(tables) THEN Raise(IndexError)
    ELSE IF ~addTupleOk(tables[table_count + 1], tup) THEN Raise(TypeError)
    ELSE /\ tables' = [tables EXCEPT ![table_count + 1] = addTuple(@, tup)]
         /\ UNCHANGED << configs, table_count, configs_count_relation, configs_count_timeline >>
         /\ Continue

\* fault: a token without structure empties the record list
ParserIgnoreForgetting ==
    /\ configs' = << >>
    /\ UNCHANGED << tables, table_count, configs_count_relation, configs_count_timeline >>
    /\ Continue

\* COMMAND, TUPLECOUNT, and comments that are no known directive
ParserIgnore ==
    /\ UNCHANGED parservars
    /\ Continue

\* ------------------------------------------------- pgsql_tokenizer, per line
\* The state the line is processed in: the first line that is no TSV marker
\* is processed in STATE_OUTSIDE.
Cur == IF state = STATE_FIRSTLINE THEN STATE_OUTSIDE ELSE state

\* A line is read: the loop of pgsql_parser is running and the line is not
\* the TSV marker on the first line.
\* for line in lines: the lines that the next iteration can get
NextLines ==
    IF input_text = Unknown THEN Lines
    ELSE IF lineno < Len(input_text) THEN { input_text[lineno + 1] }
    ELSE { }

\* fault: the loop takes the same line again
AdvanceStuck ==
    /\ lineno' = lineno
    /\ input_text' = input_text

\* the loop of pgsql_tokenizer has taken one more line
Advance ==
    /\ lineno' = IF input_text = Unknown THEN lineno ELSE lineno + 1
    /\ input_text' = input_text

\* the loop of pgsql_tokenizer is over
AtEnd == input_text = Unknown \/ lineno = Len(input_text)

Reads(line) ==
    /\ pc = "parse"
    /\ Advance
    /\ ~(state = STATE_FIRSTLINE /\ IsTsvMarker(line))

\* the relation and relation-table directives among the dispatched ones
IsRelationDirective(d) == d.keyword \in {"relation", "relation-table"}
RelationDirectives == SelectSeq(directives, IsRelationDirective)

\* the tuples of all blocks seen so far
RECURSIVE TupleTokens(_)
TupleTokens(bs) ==
    IF bs = << >> THEN 0 ELSE Len(bs[Len(bs)].rows) + TupleTokens(SubSeq(bs, 1, Len(bs) - 1))

\* the directives, Header tokens and Tuple tokens consumed so far
Consumed == Len(directives) + Len(blocks) + TupleTokens(blocks)

\* a fixed input_text is bounded by its length, an unknown one by MaxTokens
Budget == input_text # Unknown \/ Consumed < MaxTokens

\* the history of Header and Tuple tokens; ndirs: the relation directives
\* dispatched before the Header token
HeaderSeen(schema) ==
    blocks' = Append(blocks, [header |-> schema, rows |-> << >>,
                              ndirs |-> Len(RelationDirectives)])
TupleSeen(tup) == blocks' = [blocks EXCEPT ![Len(blocks)].rows = Append(@, tup)]

\* fault: the TSV marker is honoured on every line
ReadTsvMarkerAnywhere ==
    \E line \in NextLines :
        /\ pc = "parse"
        /\ IsTsvMarker(line)
        /\ Advance
        /\ state' = Cur
        /\ input_type' = INPUT_TYPE_TSV
        /\ value_sep' = "\t"
        /\ token' = NoToken
        /\ UNCHANGED << parservars, pc, err, mainvars, histvars, blocks, directives >>

\* first line matches the TSV marker: switch the input type, no token
ReadTsvMarker ==
    \E line \in NextLines :
        /\ pc = "parse"
        /\ state = STATE_FIRSTLINE
        /\ IsTsvMarker(line)
        /\ Advance
        /\ state' = STATE_OUTSIDE
        /\ input_type' = INPUT_TYPE_TSV
        /\ value_sep' = "\t"
        /\ token' = NoToken
        /\ UNCHANGED << parservars, pc, err, mainvars, histvars, blocks, directives >>

\* fault: an empty line is skipped and the state is kept
ReadBlankKeeping ==
    \E line \in NextLines :
        /\ Reads(line)
        /\ line.kind = "blank"
        /\ state' = Cur
        /\ token' = NoToken
        /\ UNCHANGED << input_type, value_sep, parservars, pc, err, mainvars, histvars, blocks, directives >>

\* empty line: back to STATE_OUTSIDE, no token
ReadBlank ==
    \E line \in NextLines :
        /\ Reads(line)
        /\ line.kind = "blank"
        /\ state' = STATE_OUTSIDE
        /\ token' = NoToken
        /\ UNCHANGED << input_type, value_sep, parservars, pc, err, mainvars, histvars, blocks, directives >>

\* fault: the rule after the header does not start the tuples
ReadRuleStaying ==
    \E line \in NextLines :
        /\ Reads(line)
        /\ line.kind = "comment"
        /\ Cur # STATE_OUTSIDE
        /\ state' = Cur
        /\ token' = NoToken
        /\ UNCHANGED << input_type, value_sep, parservars, pc, err, mainvars, histvars, blocks, directives >>

\* "--" line inside a table block: after the header it is the horizontal
\* rule that starts the tuples; no token
ReadRule ==
    \E line \in NextLines :
        /\ Reads(line)
        /\ line.kind = "comment"
        /\ Cur # STATE_OUTSIDE
        /\ state' = IF Cur = STATE_HEADER THEN STATE_TUPLES ELSE Cur
        /\ token' = NoToken
        /\ UNCHANGED << input_type, value_sep, parservars, pc, err, mainvars, histvars, blocks, directives >>

\* fault: a "--" line yields a COMMENT token in every state
YieldsCommentAnywhere(line) ==
    /\ Reads(line)
    /\ line.kind = "comment"
    /\ state' = Cur
    /\ token' = Token("COMMENT", line)
    /\ UNCHANGED << input_type, value_sep, mainvars, histvars, blocks >>

\* "--" line in STATE_OUTSIDE: COMMENT token
YieldsComment(line) ==
    /\ Reads(line)
    /\ line.kind = "comment"
    /\ Cur = STATE_OUTSIDE
    /\ state' = STATE_OUTSIDE
    /\ token' = Token("COMMENT", line)
    /\ UNCHANGED << input_type, value_sep, mainvars, histvars, blocks >>

\* COMMENT that is no TIKZ directive, or a directive of unknown keyword
ReadComment ==
    \E line \in NextLines :
        /\ YieldsComment(line)
        /\ ~line.tikz \/ line.keyword \notin {"config", "relation", "relation-table", "timeline"}
        /\ ParserIgnore
        /\ UNCHANGED directives

ReadConfig ==
    \E line \in NextLines :
        /\ YieldsComment(line)
        /\ line.tikz /\ line.keyword = "config"
        /\ Budget
        /\ Dispatched(line)
        /\ ParserConfig(line)

ReadRelation ==
    \E line \in NextLines :
        /\ YieldsComment(line)
        /\ line.tikz /\ line.keyword \in {"relation", "relation-table"}
        /\ Budget
        /\ Dispatched(line)
        /\ ParserRelation(line)

ReadTimeline ==
    \E line \in NextLines :
        /\ YieldsComment(line)
        /\ line.tikz /\ line.keyword = "timeline"
        /\ Budget
        /\ Dispatched(line)
        /\ ParserTimeline(line)

\* PostgreSQL input, STATE_OUTSIDE, no column delimiter: COMMAND token
ReadCommand ==
    \E line \in NextLines :
        /\ Reads(line)
        /\ line.kind = "data"
        /\ Cur = STATE_OUTSIDE
        /\ input_type = INPUT_TYPE_POSTGRES
        /\ ~IsPgHeader(line)
        /\ state' = STATE_OUTSIDE
        /\ token' = Token("COMMAND", line.text)
        /\ ParserIgnore
        /\ UNCHANGED << input_type, value_sep, mainvars, histvars, blocks, directives >>

\* fault: the tuples start right after the header in both dialects
ReadHeaderToTuples ==
    \E line \in NextLines :
        /\ Reads(line)
        /\ line.kind = "data"
        /\ Cur = STATE_OUTSIDE
        /\ input_type = INPUT_TYPE_POSTGRES => IsPgHeader(line)
        /\ Budget
        /\ LET headers == SplitCells(line, value_sep)
           IN  /\ token' = Token("HEADER", headers)
               /\ HeaderSeen(headers)
               /\ ParserHeader(headers)
        /\ state' = STATE_TUPLES
        /\ UNCHANGED << input_type, value_sep, mainvars, histvars, directives >>

\* STATE_OUTSIDE, table header: HEADER token; TSV input has no rule line
ReadHeader ==
    \E line \in NextLines :
        /\ Reads(line)
        /\ line.kind = "data"
        /\ Cur = STATE_OUTSIDE
        /\ input_type = INPUT_TYPE_POSTGRES => IsPgHeader(line)
        /\ Budget
        /\ LET headers == SplitCells(line, value_sep)
           IN  /\ token' = Token("HEADER", headers)
               /\ HeaderSeen(headers)
               /\ ParserHeader(headers)
        /\ state' = IF input_type = INPUT_TYPE_TSV THEN STATE_TUPLES ELSE STATE_HEADER
        /\ UNCHANGED << input_type, value_sep, mainvars, histvars, directives >>

\* STATE_HEADER, data line before the rule: no branch applies, no token
ReadSkipped ==
    \E line \in NextLines :
        /\ Reads(line)
        /\ line.kind = "data"
        /\ Cur = STATE_HEADER
        /\ token' = NoToken
        /\ UNCHANGED << tokvars, parservars, pc, err, mainvars, histvars, blocks, directives >>

\* STATE_TUPLES, row count line: TUPLECOUNT token, the block ends
ReadTupleCount ==
    \E line \in NextLines :
        /\ Reads(line)
        /\ line.kind = "data"
        /\ Cur = STATE_TUPLES
        /\ line.rows # ""
        /\ state' = STATE_OUTSIDE
        /\ token' = Token("TUPLECOUNT", line.rows)
        /\ ParserIgnore
        /\ UNCHANGED << input_type, value_sep, mainvars, histvars, blocks, directives >>

\* fault: the cells of a tuple are always split at "|"
ReadTuplePiped ==
    \E line \in NextLines :
        /\ Reads(line)
        /\ line.kind = "data"
        /\ Cur = STATE_TUPLES
        /\ line.rows = ""
        /\ Budget
        /\ LET values == SplitCells(line, "|")
           IN  /\ token' = Token("TUPLE", values)
               /\ TupleSeen(values)
               /\ ParserTuple(values)
        /\ UNCHANGED << tokvars, mainvars, histvars, directives >>

\* STATE_TUPLES, any other data line: TUPLE token
ReadTuple ==
    \E line \in NextLines :
        /\ Reads(line)
        /\ line.kind = "data"
        /\ Cur = STATE_TUPLES
        /\ line.rows = ""
        /\ Budget
        /\ LET values == SplitCells(line, value_sep)
           IN  /\ token' = Token("TUPLE", values)
               /\ TupleSeen(values)
               /\ ParserTuple(values)
        /\ UNCHANGED << tokvars, mainvars, histvars, directives >>

\* end of input: the checks after the loop of pgsql_parser, then return
ParserReturn ==
    /\ pc = "parse"
    /\ AtEnd
    /\ token' = NoToken
    /\ IF configs_count_relation = 0 THEN Raise(ErrNoTables)
       ELSE IF configs_count_relation < Len(tables) THEN Raise(ErrTooFewConfigs)
       ELSE IF configs_count_relation > Len(tables) THEN Raise(ErrTooFewTables)
       ELSE /\ pc' = "returned"
            /\ err' = err
            /\ UNCHANGED parservars
    /\ UNCHANGED << scanvars, tokvars, mainvars, histvars, blocks, directives >>

\* ------------------------------------------------------- rendering helpers
\* int(s) for the numerals that occur in the modelled input
Numerals == << "0", "1", "2", "3", "4", "5", "6", "7", "8", "9", "10" >>
IsInt(s) == \E i \in 1..Len(Numerals) : Numerals[i] = s
IntOf(s) == (CHOOSE i \in 1..Len(Numerals) : Numerals[i] = s) - 1

\* int() of a directive field: a text with a comma is no numeral
IsIntText(t) == Len(t) = 1 /\ IsInt(t[1])
IntOfText(t) == IntOf(t[1])

\* re.search(r'.?(\d+),(\d+).?', cell): the two numbers, << >> when no match
RangeOf(cell) ==
    CASE cell = "[3,9)" -> << 3, 9 >>
      [] cell = "[1,7)" -> << 1, 7 >>
      [] OTHER -> << >>

\* tup[i] for a Python index i (negative: counted from the end), 1-based here
PyIndex(tup, i) == IF i < 0 THEN Len(tup) + i + 1 ELSE i + 1
PyInRange(tup, i) == PyIndex(tup, i) \in 1..Len(tup)

getTupleTS(rel, tup) == tup[PyIndex(tup, rel.tsid)]
getTupleTE(rel, tup) == tup[PyIndex(tup, rel.teid)]
getTupleYPOS(rel, tup) == tup[PyIndex(tup, rel.ypos)]

\* the items of seq whose 0-based index is in none of skip
RECURSIVE Without(_, _, _)
Without(seq, i, skip) ==
    IF i > Len(seq) THEN << >>
    ELSE (IF (i - 1) \in skip THEN << >> ELSE << seq[i] >>) \o Without(seq, i + 1, skip)

getTupleB(rel, tup) == Without(tup, 1, {rel.tsid, rel.teid, rel.ypos})
getTupleTB(rel, tup) == Without(tup, 1, {rel.ypos})
getTuplesTB(rel) == [j \in 1..Len(rel.values) |-> getTupleTB(rel, rel.values[j])]
getSchemaTemporal(rel) == Without(rel.schema, 1, {rel.ypos})
getLength(rel) == Len(rel.values)

\* desc.strip() != "" (directive fields carry no surrounding blanks)
IsBlankText(t) == t = Str("")

\* an element that stands for the exception raised at its place
Failure(e) == [kind |-> "error", err |-> e]
ErrInt        == ValueError("invalid literal for int() with base 10")
ErrFloat      == ValueError("could not convert string to float")
KeyError      == [type |-> "KeyError", msg |-> "value"]
AttributeError == [type |-> "AttributeError", msg |-> "'Relation' object has no attribute 'desc'"]

\* the first exception among the elements, NoError when there is none
RECURSIVE FirstError(_)
FirstError(elems) ==
    IF elems = << >> THEN NoError
    ELSE IF elems[1].kind = "error" THEN elems[1].err
    ELSE FirstError(Tail(elems))

\* format_tikz_tupleline; rec is the position of the record in parse_result
format_tikz_tupleline(tup, rel, rec, tuple_count, count) ==
    LET tscell == getTupleTS(rel, tup)
        range  == RangeOf(tscell)
        point  == rel.teid = -1 /\ range = << >>
        bad    == IF rel.teid # -1
                  THEN ~IsInt(tscell) \/ ~IsInt(getTupleTE(rel, tup))
                  ELSE range = << >> /\ ~IsInt(tscell)
        ts     == IF rel.teid # -1 THEN IntOf(tscell)
                  ELSE IF range # << >> THEN range[1] ELSE IntOf(tscell)
        te     == IF rel.teid # -1 THEN IntOf(getTupleTE(rel, tup))
                  ELSE IF range # << >> THEN range[2] ELSE ts + 1
        ybad   == rel.ypos # -1 /\ ~IsInt(getTupleYPOS(rel, tup))
        y      == IF rel.ypos # -1 THEN IntOf(getTupleYPOS(rel, tup)) ELSE count
    IN  IF ~PyInRange(tup, rel.tsid) \/ (rel.teid # -1 /\ ~PyInRange(tup, rel.teid))
        THEN Failure(IndexError)
        ELSE IF bad THEN Failure(ErrInt)
        ELSE IF ybad THEN Failure(ErrFloat)
        ELSE [kind |-> IF point THEN "point" ELSE "tuple", rec |-> rec,
              name |-> rel.name, id |-> tuple_count, ts |-> ts, te |-> te,
              count |-> y, attribs |-> getTupleB(rel, tup)]

\* format_tikz_timeline
format_tikz_timeline(line, rec) ==
    IF ~IsIntText(line.from) \/ ~IsIntText(line.to)
       \/ (line.step # Str("") /\ ~IsIntText(line.step))
    THEN Failure(ErrInt)
    ELSE [kind |-> "timeline", rec |-> rec, start |-> IntOfText(line.from),
          end |-> IntOfText(line.to),
          step |-> IF line.step # Str("") THEN IntOfText(line.step) ELSE 0,
          desc |-> line.desc]

\* fault: the position is cut to a whole number (integer division)
format_tikz_descFloored(pos2, desc, rec) ==
    [kind |-> "desc", rec |-> rec, pos2 |-> pos2 - (pos2 % 2), desc |-> desc]

\* format_tikz_desc; pos2 is twice the position  posy - (getLength() - 1) / 2
format_tikz_desc(pos2, desc, rec) ==
    [kind |-> "desc", rec |-> rec, pos2 |-> pos2, desc |-> desc]

IsRelationRecord(line) == line.type \in {"relation", "relation-table"}

\* the largest ypos value among the rows from j on, at least m
RECURSIVE MaxYpos(_, _, _)
MaxYpos(rel, j, m) ==
    IF j > Len(rel.values) THEN m
    ELSE LET v == IntOf(getTupleYPOS(rel, rel.values[j]))
         IN  MaxYpos(rel, j + 1, IF m < v THEN v ELSE m)

\* what one relation adds to count_above
AboveOf(rel) ==
    IF rel.ypos # -1 THEN MaxYpos(rel, 1, 1) + 1 ELSE getLength(rel) - 1

\* float(v[ypos]) fails for a row of the relation
YposFails(rel) ==
    /\ rel.ypos # -1
    /\ \E j \in DOMAIN rel.values : ~IsInt(getTupleYPOS(rel, rel.values[j]))

\* format_tikz_figure, first loop: the tuples above the timeline
RECURSIVE CountAbove(_, _, _)
CountAbove(parse_result, store, i) ==
    IF i > Len(parse_result) \/ parse_result[i].type = "timeline" THEN 0
    ELSE (IF "relation" \in DOMAIN parse_result[i]
          THEN AboveOf(store[parse_result[i].relation]) ELSE 0)
         + CountAbove(parse_result, store, i + 1)

\* the first loop raises: a ypos cell above the timeline is no number
RECURSIVE CountAboveFails(_, _, _)
CountAboveFails(parse_result, store, i) ==
    IF i > Len(parse_result) \/ parse_result[i].type = "timeline" THEN FALSE
    ELSE \/ "relation" \in DOMAIN parse_result[i] /\ YposFails(store[parse_result[i].relation])
         \/ CountAboveFails(parse_result, store, i + 1)

\* fault: the coordinate goes down by two per tuple
TupleLinesSparse(rel, rec, posy) ==
    [j \in 1..Len(rel.values) |->
        format_tikz_tupleline(rel.values[j], rel, rec, j, posy - 2 * (j - 1))]

\* the tuple lines of one relation, posy decreasing by one per tuple
TupleLines(rel, rec, posy) ==
    [j \in 1..Len(rel.values) |->
        format_tikz_tupleline(rel.values[j], rel, rec, j, posy - (j - 1))]

\* format_tikz_figure, second loop, from record i on
RECURSIVE FigureFrom(_, _, _, _)
FigureFrom(parse_result, store, i, posy) ==
    IF i > Len(parse_result) THEN << >>
    ELSE LET line == parse_result[i]
         IN  IF line.type = "timeline"
             THEN << format_tikz_timeline(line, i) >> \o FigureFrom(parse_result, store, i + 1, -2)
             ELSE IF ~IsRelationRecord(line)
             THEN FigureFrom(parse_result, store, i + 1, posy)
             ELSE LET rel == store[line.relation]
                      d   == IF rel.desc = Unset THEN << Failure(AttributeError) >>
                             ELSE IF IsBlankText(rel.desc) THEN << >>
                             ELSE << format_tikz_desc(2 * posy - (getLength(rel) - 1), rel.desc, i) >>
                  IN  d \o TupleLines(rel, i, posy)
                        \o FigureFrom(parse_result, store, i + 1, posy - getLength(rel))

\* list_get(cfg, key, default)
list_get(l, idx, default) == IF idx \in DOMAIN l THEN l[idx] ELSE default

\* format_tikz_figure: the ypos of every Relation is -1 unless setMetaData ran
format_tikz_figure(parse_result, store, c) ==
    [xscale |-> list_get(c, Str("xscale"), Str("0.65")),
     yscale |-> list_get(c, Str("yscale"), Str("0.4")),
     content |-> IF CountAboveFails(parse_result, store, 1)
                 THEN << Failure(ErrFloat) >>
                 ELSE FigureFrom(parse_result, store, 1, CountAbove(parse_result, store, 1))]

\* format_latex_table
format_latex_table(line, store, rec, table_type) ==
    LET rel == store[line.relation]
        tuples == getTuplesTB(rel)
    IN  [kind |-> "table", rec |-> rec, table_type |-> table_type, relation |-> rel.name,
         caption |-> rel.desc, header |-> getSchemaTemporal(rel),
         rows |-> [j \in 1..Len(tuples) |-> [tag |-> << rel.name, j >>, cells |-> tuples[j]]]]

\* ---------------------------------------------------------------------- main
OutputTypes == { "all", "All", "table-only", "figure-only", "figure-standalone" }

table_type_of(ot) == IF ot = "all" THEN 2 ELSE IF ot = "All" THEN 3 ELSE 1

\* fault: every relation record is formatted as a table
IsTableRecordOrRelation(line) == line.type \in {"relation", "relation-table"}

\* line['type'] == 'relation-table'
IsTableRecord(line) == line.type = "relation-table"

\* the loop over parse_result that formats the tables and collects cfg
RECURSIVE TableLoop(_, _, _, _)
TableLoop(parse_result, store, i, tt) ==
    IF i > Len(parse_result) THEN << >>
    ELSE (IF IsTableRecord(parse_result[i])
          THEN << format_latex_table(parse_result[i], store, i, tt) >>
          ELSE IF parse_result[i].type = "config" /\ "value" \notin DOMAIN parse_result[i]
          THEN << Failure(KeyError) >>
          ELSE << >>)
         \o TableLoop(parse_result, store, i + 1, tt)

\* cfg[line['key']] = line['value'] for every config record, in order
RECURSIVE CfgLoop(_, _, _)
CfgLoop(parse_result, i, c) ==
    IF i > Len(parse_result) THEN c
    ELSE LET line == parse_result[i]
         IN  IF line.type = "config" /\ "value" \in DOMAIN line
             THEN CfgLoop(parse_result, i + 1,
                          [k \in DOMAIN c \cup {line.key} |->
                              IF k = line.key THEN line.value ELSE c[k]])
             ELSE CfgLoop(parse_result, i + 1, c)

ErrNoLabel   == ValueError("No config line with key 'label' found!")
ErrNoCaption == ValueError("No config line with key 'caption' found!")

\* the checks of main for the combined outputs: the exception they raise
LabelError(ot, c) ==
    IF ot \in {"all", "All"} /\ Str("label") \notin DOMAIN c THEN ErrNoLabel
    ELSE IF ot \in {"all", "All"} /\ Str("caption") \notin DOMAIN c THEN ErrNoCaption
    ELSE NoError

\* fault: formatting uses up the rows of the relations
MainRenderConsuming ==
    /\ pc = "returned"
    /\ \E ot \in OutputTypes :
        LET tabled == ot \in {"all", "All", "table-only"}
            drawn  == ot \in {"all", "All", "figure-standalone", "figure-only"}
            t  == IF tabled THEN TableLoop(configs, tables, 1, table_type_of(ot)) ELSE table
            c  == IF tabled THEN CfgLoop(configs, 1, cfg) ELSE cfg
            f  == format_tikz_figure(configs, tables, c)
            e1 == FirstError(t)
            e2 == LabelError(ot, c)
            e3 == IF drawn THEN FirstError(f.content) ELSE NoError
        IN  /\ output_type' = ot
            /\ table'  = IF e1 = NoError THEN t ELSE table
            /\ cfg'    = IF e1 = NoError THEN c ELSE cfg
            /\ figure' = IF e1 = NoError /\ e2 = NoError /\ e3 = NoError /\ drawn
                         THEN f ELSE figure
            /\ err' = IF e1 # NoError THEN e1 ELSE IF e2 # NoError THEN e2 ELSE e3
            /\ pc'  = IF err' = NoError THEN "rendered" ELSE "raised"
    /\ tables' = [k \in DOMAIN tables |-> [tables[k] EXCEPT !.values = << >>]]
    /\ UNCHANGED << scanvars, histvars, tokvars, token, configs, table_count, configs_count_relation,
                    configs_count_timeline, outfile, blocks, directives >>

\* main between the return of pgsql_parser and the opening of the output:
\* args.output_type is read, the tables are formatted and cfg is collected,
\* label and caption are checked, the figure is formatted.  The first
\* exception ends the run with the later assignments not made.
MainRender ==
    /\ pc = "returned"
    /\ \E ot \in OutputTypes :
        LET tabled == ot \in {"all", "All", "table-only"}
            drawn  == ot \in {"all", "All", "figure-standalone", "figure-only"}
            t  == IF tabled THEN TableLoop(configs, tables, 1, table_type_of(ot)) ELSE table
            c  == IF tabled THEN CfgLoop(configs, 1, cfg) ELSE cfg
            f  == format_tikz_figure(configs, tables, c)
            e1 == FirstError(t)
            e2 == LabelError(ot, c)
            e3 == IF drawn THEN FirstError(f.content) ELSE NoError
        IN  /\ output_type' = ot
            /\ table'  = IF e1 = NoError THEN t ELSE table
            /\ cfg'    = IF e1 = NoError THEN c ELSE cfg
            /\ figure' = IF e1 = NoError /\ e2 = NoError /\ e3 = NoError /\ drawn
                         THEN f ELSE figure
            /\ err' = IF e1 # NoError THEN e1 ELSE IF e2 # NoError THEN e2 ELSE e3
            /\ pc'  = IF err' = NoError THEN "rendered" ELSE "raised"
    /\ UNCHANGED << scanvars, histvars, tokvars, token, parservars, outfile, blocks, directives >>

\* args.output: None (sys.stdout), a path that is free, a path of a file
Outputs == { "stdout", "new", "existing" }

ErrFileExists == ValueError("File already exists! Exiting...")

\* cfg[key] for a key that cfg does not hold
KeyErrorOf(key) == [type |-> "KeyError", msg |-> key]

\* the keys of cfg that the call for output type 'All' reads, in order
KeysOfAllTop == << "caption", "label", "tablecaption", "tablelabel",
                  "graphcaption", "graphlabel" >>

\* the first of the keys that cfg does not hold, "" when it holds them all
RECURSIVE FirstMissing(_, _)
FirstMissing(keys, c) ==
    IF keys = << >> THEN ""
    ELSE IF Str(keys[1]) \notin DOMAIN c THEN keys[1]
    ELSE FirstMissing(Tail(keys), c)

format_latex_header == [kind |-> "header"]

\* the text written after the header for the output type
Body(ot) ==
    CASE ot = "all" ->
            [kind |-> "figure_and_table", table |-> table, figure |-> figure,
             caption |-> cfg[Str("caption")], label |-> cfg[Str("label")],
             subfigure_left |-> list_get(cfg, Str("subfigure-left"), Str("0.27")),
             subfigure_right |-> list_get(cfg, Str("subfigure-right"), Str("0.63"))]
      [] ot = "All" ->
            [kind |-> "figure_and_table_top", table |-> table, figure |-> figure,
             keys |-> [k \in 1..Len(KeysOfAllTop) |-> cfg[Str(KeysOfAllTop[k])]]]
      [] ot = "table-only" -> [kind |-> "table-only", table |-> table]
      [] ot = "figure-only" -> [kind |-> "figure-only", figure |-> figure]
      [] ot = "figure-standalone" -> [kind |-> "standalone", figure |-> figure]

\* main from the opening of the output to its end: an existing output file
\* raises before anything is written; else the header is written, then the
\* text for the output type, whose arguments are read from cfg first.
MainWrite ==
    /\ pc = "rendered"
    /\ \E out \in Outputs :
        LET missing == IF output_type = "All" THEN FirstMissing(KeysOfAllTop, cfg) ELSE ""
        IN  IF out = "existing"
            THEN /\ outfile' = outfile
                 /\ err' = ErrFileExists
                 /\ pc' = "raised"
            ELSE IF missing # ""
            THEN /\ outfile' = Append(outfile, format_latex_header)
                 /\ err' = KeyErrorOf(missing)
                 /\ pc' = "raised"
            ELSE /\ outfile' = outfile \o << format_latex_header, Body(output_type) >>
                 /\ err' = err
                 /\ pc' = "written"
    /\ UNCHANGED << scanvars, histvars, tokvars, token, parservars, output_type, table, cfg, figure,
                    blocks, directives >>

Next ==
    \/ ReadTsvMarker
    \/ ReadBlank
    \/ ReadRule
    \/ ReadComment
    \/ ReadConfig
    \/ ReadRelation
    \/ ReadTimeline
    \/ ReadCommand
    \/ ReadHeader
    \/ ReadSkipped
    \/ ReadTupleCount
    \/ ReadTuple
    \/ ParserReturn
    \/ MainRender
    \/ MainWrite

Spec == Init /\ [][Next]_vars

\* ------------------------------------------------------ notions for claims
\* main: a ValueError is printed and the exit status is 3; any other
\* exception is not caught (exit status 1)
ExitStatus ==
    IF pc # "raised" THEN 0 ELSE IF err.type = "ValueError" THEN 3 ELSE 1

\* pgsql_parser raised / returned its list
ParserRaised   == pc = "raised" /\ output_type = ""
ParserReturned == pc \in {"returned", "rendered", "written"} \/ (pc = "raised" /\ output_type # "")

RelationRecords == SelectSeq(configs, IsRelationRecord)
RelationOf(k) == tables[RelationRecords[k].relation]

IsTimelineDirective(d) == d.keyword = "timeline"
TimelineRecords == { i \in DOMAIN configs : configs[i].type = "timeline" }

\* a directive with the number of fields its keyword asks for
WellFormed(d) ==
    /\ IsRelationDirective(d) => Len(d.body) >= 5
    /\ IsTimelineDirective(d) => Len(d.body) >= 4
    /\ d.keyword = "config" => Len(d.body) >= 2
AllWellFormed ==
    /\ \A i \in DOMAIN directives : WellFormed(directives[i])
    /\ Len(SelectSeq(directives, IsTimelineDirective)) <= 1

\* the 0-based position of the column called name, -1 when there is none
ColumnIndex(schema, name) ==
    IF \E i \in DOMAIN schema : Str(schema[i]) = name
    THEN (CHOOSE i \in DOMAIN schema : Str(schema[i]) = name
                                       /\ \A j \in DOMAIN schema : Str(schema[j]) = name => j <= i) - 1
    ELSE -1

\* every block directly follows its own directive: D1 B1 D2 B2 ...
DirectiveFirst ==
    /\ Len(RelationDirectives) = Len(blocks)
    /\ \A k \in DOMAIN blocks : blocks[k].ndirs = k

\* every block directly precedes its own directive: B1 D1 B2 D2 ...
BlockFirst ==
    /\ blocks # << >>
    /\ Len(RelationDirectives) = Len(blocks)
    /\ \A k \in DOMAIN blocks : blocks[k].ndirs = k - 1

\* the k-th relation holds the fields of the k-th relation directive and the
\* header and rows of the k-th block
BoundToBlock(k) ==
    /\ k <= Len(RelationRecords)
    /\ RelationOf(k).schema = blocks[k].header
    /\ RelationOf(k).values = blocks[k].rows
    /\ RelationOf(k).name = Str(RelationDirectives[k].body[1])
    /\ RelationOf(k).tsname = Str(RelationDirectives[k].body[2])
    /\ RelationOf(k).tename = Str(RelationDirectives[k].body[3])

\* ------------------------------------------------------------------ claims
\* C1: with every relation directive placed before its own table block, the
\* k-th relation record of the returned list has the column list of the k-th
\* Header token as schema and the Tuple tokens of the k-th block, in input
\* order, as rows.
C1_DirectiveBindsOwnBlock ==
    (ParserReturned /\ DirectiveFirst /\ AllWellFormed) =>
        \A k \in DOMAIN blocks :
            /\ k <= Len(RelationRecords)
            /\ RelationOf(k).schema = blocks[k].header
            /\ RelationOf(k).values = blocks[k].rows

\* C2: an input in which every table block comes before its relation
\* directive parses without error and gives, slot by slot, the relation
\* contents (name, temporal column names, schema, rows) of the directive-first
\* arrangement.
C2_BlockBeforeDirective ==
    (BlockFirst /\ AllWellFormed) =>
        /\ ~ParserRaised
        /\ ParserReturned => \A k \in DOMAIN blocks : BoundToBlock(k)

\* C3: pgsql_parser returns only when the relation directives are as many as
\* the header blocks; more header blocks end in the "not enough TIKZ relation
\* config strings" error, more directives in the "not enough table outputs"
\* error.
C3_CardinalityChecked ==
    LET nd == Len(RelationDirectives)
        nb == Len(blocks)
        atEnd == ParserReturned
                 \/ (ParserRaised /\ err \in {ErrNoTables, ErrTooFewConfigs, ErrTooFewTables})
    IN  /\ ParserReturned => nd = nb
        /\ (atEnd /\ AllWellFormed /\ nb > nd) => (ParserRaised /\ err = ErrTooFewConfigs)
        /\ (atEnd /\ AllWellFormed /\ nd > nb) => (ParserRaised /\ err = ErrTooFewTables)

\* C4: once pgsql_parser has consumed all tokens, the ts, te and ypos index of
\* every relation is the position in its schema of the column the directive
\* names, -1 when the name is empty or absent.
C4_IndexesResolved ==
    ParserReturned =>
        \A i \in DOMAIN tables :
            /\ tables[i].tsid = ColumnIndex(tables[i].schema, tables[i].tsname)
            /\ tables[i].teid = ColumnIndex(tables[i].schema, tables[i].tename)
            /\ tables[i].ypos = ColumnIndex(tables[i].schema, tables[i].yposname)

\* C5: a relation directive whose ts column is not in the header of its table
\* ends the run with a fatal error during parsing: no list is returned and
\* nothing is rendered.
C5_MissingTsIsFatal ==
    (\E k \in DOMAIN blocks :
        /\ k <= Len(RelationDirectives)
        /\ WellFormed(RelationDirectives[k])
        /\ ColumnIndex(blocks[k].header, Str(RelationDirectives[k].body[2])) = -1)
    => (~ParserReturned /\ table = << >> /\ figure = << >>)

\* C6: in every reachable state every row stored in a relation has as many
\* cells as the schema of that relation has columns.
C6_RowsMatchSchema ==
    \A i \in DOMAIN tables :
        \A j \in DOMAIN tables[i].values :
            Len(tables[i].values[j]) = Len(tables[i].schema)

\* the Tuple token just yielded has another cell count than the schema of
\* the relation it is added to
TupleMismatch ==
    /\ token.kind = "TUPLE"
    /\ table_count < Len(tables)
    /\ Len(token.value) # Len(tables[table_count + 1].schema)

\* C7: a Tuple token whose cell count differs from the schema length is not
\* appended, and the run ends with the ValueError of raise_error, which main
\* reports with exit status 3.
C7_MismatchIsValueError ==
    TupleMismatch =>
        /\ pc = "raised"
        /\ err.type = "ValueError"
        /\ ExitStatus = 3

\* C8: the record list never holds more than one timeline record; the second
\* timeline directive raises the fatal error and adds no record.
C8_SingleTimeline ==
    /\ Cardinality(TimelineRecords) <= 1
    /\ Len(SelectSeq(directives, IsTimelineDirective)) >= 2 =>
            (ParserRaised /\ err = ErrSecondTimeline)

\* a second timeline directive has been rejected, one record is kept
C8_Witness ==
    /\ err = ErrSecondTimeline
    /\ Cardinality(TimelineRecords) = 1
    /\ Len(SelectSeq(directives, IsTimelineDirective)) = 2

\* C9 as stated: when the duplicate-timeline error is raised, no Header or
\* Tuple token has been applied to a relation, wherever the two directives
\* stand in the input.
C9_RejectedBeforeAnyTable ==
    err = ErrSecondTimeline =>
        \A i \in DOMAIN tables : tables[i].schema = << >> /\ tables[i].values = << >>

\* C9 amended: the duplicate-timeline error is raised by the step that
\* consumes the second timeline directive; that step and everything after it
\* leave the record list, the relations and their rows as they were (tokens
\* before the directive have been applied, none after it is).
C9_RejectedAtSecondTimeline ==
    [][err' = ErrSecondTimeline =>
            (configs' = configs /\ tables' = tables /\ blocks' = blocks)]_vars

\* the error is raised after a table block has been applied
C9_Witness ==
    /\ err = ErrSecondTimeline
    /\ blocks # << >>
    /\ \E i \in DOMAIN tables : tables[i].schema # << >>

\* the positions of the records of parse_result of the given types, ascending
RECURSIVE Positions(_, _, _)
Positions(parse_result, i, types) ==
    IF i > Len(parse_result) THEN << >>
    ELSE (IF parse_result[i].type \in types THEN << i >> ELSE << >>)
         \o Positions(parse_result, i + 1, types)

\* the records the elements come from, each run of one record counted once
RECURSIVE Sources(_)
Sources(elems) ==
    IF elems = << >> THEN << >>
    ELSE IF Len(elems) >= 2 /\ elems[1].rec = elems[2].rec THEN Sources(Tail(elems))
    ELSE << elems[1].rec >> \o Sources(Tail(elems))

DrawnTypes == {"timeline", "relation", "relation-table"}
TableTypes == {"relation-table"}

\* the i-th record is the record of the i-th directive
RecordOfDirective(i) ==
    /\ configs[i].type = directives[i].keyword
    /\ configs[i].type = "config" => configs[i].key = Str(directives[i].body[1])
    /\ configs[i].type = "timeline" => configs[i].from = Str(directives[i].body[1])
    /\ IsRelationRecord(configs[i]) =>
            tables[configs[i].relation].name = Str(directives[i].body[1])

\* C10: the returned list holds the records in the source order of their
\* directives, and the figure and the tables are emitted in that order: no
\* record is reordered, duplicated or dropped.
C10_SourceOrderKept ==
    /\ ParserReturned =>
            /\ Len(configs) = Len(directives)
            /\ \A i \in DOMAIN configs : RecordOfDirective(i)
    /\ (pc = "rendered" /\ output_type \in {"all", "All", "table-only"}) =>
            Sources(table) = Positions(configs, 1, TableTypes)
    /\ (pc = "rendered" /\ output_type \in {"all", "All", "figure-only", "figure-standalone"}) =>
            Sources(figure.content) = Positions(configs, 1, DrawnTypes)

\* a table, a timeline and a relation have been emitted from a list that
\* also holds config records
C10_Witness ==
    /\ pc = "rendered"
    /\ output_type = "all"
    /\ Len(table) >= 1
    /\ Len(Sources(figure.content)) >= 2
    /\ \E i \in DOMAIN configs : configs[i].type = "config"

\* ----------------------------------------------- notions for layout claims
\* format_tikz_figure has returned its text
Drawn == figure # << >>

\* an element made by format_tikz_tupleline
IsTupleElem(e) == e.kind \in {"tuple", "point"}

\* the relation, the row and the directive a tuple element was made from
SourceRel(e) == tables[configs[e.rec].relation]
SourceTup(e) == SourceRel(e).values[e.id]
SourceDir(e) == directives[e.rec]

\* field n of the directive names a column of the schema, and the row has
\* a cell in that column
HasNamed(e, n) ==
    LET i == ColumnIndex(SourceRel(e).schema, Str(SourceDir(e).body[n]))
    IN  i # -1 /\ i + 1 <= Len(SourceTup(e))

\* the cell of the row in the column that field n of the directive names
NamedCell(e, n) ==
    SourceTup(e)[ColumnIndex(SourceRel(e).schema, Str(SourceDir(e).body[n])) + 1]

\* C11: a tuple of a relation whose directive names a ts and a te column of
\* the header is drawn as an interval bar from the integer in its ts column
\* to the integer in its te column.
C11_ExtentFromNamedColumns ==
    Drawn =>
        \A k \in DOMAIN figure.content :
            LET e == figure.content[k]
            IN  (/\ IsTupleElem(e)
                 /\ HasNamed(e, 2) /\ HasNamed(e, 3)
                 /\ IsInt(NamedCell(e, 2)) /\ IsInt(NamedCell(e, 3)))
                => /\ e.kind = "tuple"
                   /\ e.ts = IntOf(NamedCell(e, 2))
                   /\ e.te = IntOf(NamedCell(e, 3))

\* C12: a tuple of a relation whose directive leaves the te column empty
\* takes its extent from the cell in the column named as ts: a range literal
\* gives its two numbers and an interval bar, a single integer v gives
\* (v, v + 1) and the point template.
C12_ExtentFromTsColumnAlone ==
    Drawn =>
        \A k \in DOMAIN figure.content :
            LET e == figure.content[k]
            IN  (IsTupleElem(e) /\ HasNamed(e, 2) /\ SourceDir(e).body[3] = "")
                => LET cell == NamedCell(e, 2)
                   IN  /\ RangeOf(cell) # << >> =>
                            /\ e.kind = "tuple"
                            /\ e.ts = RangeOf(cell)[1]
                            /\ e.te = RangeOf(cell)[2]
                       /\ (RangeOf(cell) = << >> /\ IsInt(cell)) =>
                            /\ e.kind = "point"
                            /\ e.ts = IntOf(cell)
                            /\ e.te = IntOf(cell) + 1

\* the position of the timeline record in the list, 0 when there is none
TimelinePos == IF TimelineRecords = {} THEN 0 ELSE CHOOSE i \in TimelineRecords : TRUE

\* the directive of the element's relation names no ypos column
NoYpos(e) == SourceDir(e).body[4] = ""

\* C13: without a ypos column, a tuple of a relation listed before the
\* timeline directive is drawn at a coordinate above 0, where the axis is,
\* and a tuple of a relation listed after it at a coordinate below 0.
C13_SidesOfTheAxis ==
    (Drawn /\ TimelineRecords # {}) =>
        \A k \in DOMAIN figure.content :
            LET e == figure.content[k]
            IN  (IsTupleElem(e) /\ NoYpos(e)) =>
                    /\ e.rec < TimelinePos => e.count > 0
                    /\ e.rec > TimelinePos => e.count < 0

\* ------------------------------------------- format_tikz_figure on its own
\* format_tikz_figure applied to record lists of bounded size: up to
\* MaxRelations relation records with up to MaxRows rows each, and at most
\* one timeline record at any place among them.
MaxRelations == 3
MaxRows == 3

\* a Relation as pgsql_parser leaves it for the directive of RelRLine, the
\* header of HeadLine and n rows of RowLine
RelationWith(n) ==
    [Relation EXCEPT !.schema = HeadLine.cells,
                     !.values = [j \in 1..n |-> RowLine.cells],
                     !.name = Str(RelRLine.body[1]),
                     !.tsname = Str(RelRLine.body[2]),
                     !.tename = Str(RelRLine.body[3]),
                     !.yposname = Str(RelRLine.body[4]),
                     !.desc = Str(RelRLine.body[5])]

\* the record pgsql_parser appends for TimelineLine
TimelineRecord ==
    ZipDict(<<"type", "from", "to", "step", "desc">>,
            << TimelineLine.keyword >> \o SplitMax(TimelineLine.body, 3))

\* the record list for relations of the given sizes with the timeline record
\* at position tp (none when tp = 0)
RecordList(sizes, tp) ==
    [i \in 1..(Len(sizes) + (IF tp = 0 THEN 0 ELSE 1)) |->
        IF i = tp THEN TimelineRecord
        ELSE [type |-> RelRLine.keyword,
              relation |-> IF tp # 0 /\ i > tp THEN i - 1 ELSE i]]

\* the Relation as the directive of RelBareLine leaves it: no description
Undescribed(rel) == [rel EXCEPT !.desc = Str(RelBareLine.body[5])]

\* pgsql_parser has returned such a list (bare = n: the last relation has
\* an empty description); main has not read the output type
LayoutInit ==
    \E n \in 0..MaxRelations :
        \E sizes \in [1..n -> 0..MaxRows] :
            \E tp \in 0..(n + 1), bare \in {0, n} :
                /\ configs = RecordList(sizes, tp)
                /\ tables = [k \in 1..n |->
                        IF k = bare THEN Undescribed(RelationWith(sizes[k]))
                        ELSE RelationWith(sizes[k])]
                /\ directives = [i \in DOMAIN RecordList(sizes, tp) |->
                        IF i = tp
                        THEN [keyword |-> TimelineLine.keyword, body |-> TimelineLine.body]
                        ELSE IF RecordList(sizes, tp)[i].relation = bare
                        THEN [keyword |-> RelBareLine.keyword, body |-> RelBareLine.body]
                        ELSE [keyword |-> RelRLine.keyword, body |-> RelRLine.body]]
                /\ blocks = [k \in 1..n |->
                        [header |-> HeadLine.cells,
                         rows |-> [j \in 1..sizes[k] |-> RowLine.cells],
                         ndirs |-> k]]
                /\ configs_count_relation = n
                /\ configs_count_timeline = IF tp = 0 THEN 0 ELSE 1
    /\ table_count = 0
    /\ input_text = Unknown
    /\ lineno = 0
    /\ state = STATE_OUTSIDE
    /\ input_type = INPUT_TYPE_POSTGRES
    /\ value_sep = "|"
    /\ token = NoToken
    /\ pc = "returned"
    /\ err = NoError
    /\ output_type = ""
    /\ table = << >>
    /\ cfg = << >>
    /\ figure = << >>
    /\ outfile = << >>
    /\ statistics = NoStatistics
    /\ histfiles = << >>

LayoutNext ==
    \/ MainRender
    \/ MainWrite

LayoutSpec == LayoutInit /\ [][LayoutNext]_vars

\* the tuple elements of the figure, in the order they were emitted
TupleElems == SelectSeq(figure.content, IsTupleElem)

\* two records are on the same side of the timeline record
SameSide(i, j) == (i < TimelinePos) = (j < TimelinePos)

\* the row counts of the relation records in front of the timeline record,
\* of all relation records when there is none
RECURSIVE SizesAbove(_)
SizesAbove(i) ==
    IF i > Len(configs) \/ configs[i].type = "timeline" THEN << >>
    ELSE (IF IsRelationRecord(configs[i])
          THEN << Len(tables[configs[i].relation].values) >> ELSE << >>)
         \o SizesAbove(i + 1)

\* C14: without a ypos column the coordinate goes down by exactly 1 from
\* each tuple to the next tuple on the same side of the timeline, across
\* relation boundaries too; with relations of 2, 1 and 3 rows above the
\* timeline the six coordinates are consecutive integers and the two rows
\* of the first relation have the two highest.
C14_ConsecutiveCoordinates ==
    Drawn =>
        /\ \A k \in 1..(Len(TupleElems) - 1) :
                (/\ SameSide(TupleElems[k].rec, TupleElems[k + 1].rec)
                 /\ NoYpos(TupleElems[k]) /\ NoYpos(TupleElems[k + 1]))
                => TupleElems[k + 1].count = TupleElems[k].count - 1
        /\ SizesAbove(1) = << 2, 1, 3 >> =>
                /\ \A k \in 1..6 : TupleElems[k].count = TupleElems[1].count - (k - 1)
                /\ TupleElems[1].rec = TupleElems[2].rec
                /\ TupleElems[2].rec # TupleElems[3].rec
                /\ \A k \in 3..Len(TupleElems) :
                        TupleElems[k].count < TupleElems[2].count

\* relations of 2, 1 and 3 rows above a timeline have been drawn
C14_Witness ==
    /\ Drawn
    /\ SizesAbove(1) = << 2, 1, 3 >>
    /\ TimelinePos = 4
    /\ Len(TupleElems) = 6

\* the directive of the element's relation names a ypos column of the
\* schema, and the row holds a number there
HasYpos(e) == HasNamed(e, 4) /\ IsInt(NamedCell(e, 4))

\* the tuple elements between the k-th and the l-th whose relation has no
\* ypos column
StackedBetween(k, l) ==
    Cardinality({ j \in (k + 1)..(l - 1) : NoYpos(TupleElems[j]) })

\* C15: a tuple of a relation whose directive names a ypos column is drawn
\* at the coordinate its row holds in that column, and the tuples of such a
\* relation do not move the stacking counter: two stacked tuples on one side
\* of the timeline differ by one more than the stacked tuples between them.
C15_YposColumnPlacesTuple ==
    Drawn =>
        /\ \A k \in DOMAIN TupleElems :
                HasYpos(TupleElems[k]) =>
                    TupleElems[k].count = IntOf(NamedCell(TupleElems[k], 4))
        /\ \A k, l \in DOMAIN TupleElems :
                (/\ k < l
                 /\ NoYpos(TupleElems[k]) /\ NoYpos(TupleElems[l])
                 /\ SameSide(TupleElems[k].rec, TupleElems[l].rec))
                => TupleElems[k].count - TupleElems[l].count = StackedBetween(k, l) + 1

\* an exception of main's own steps: the label and caption checks, the
\* check of the output file, the reading of cfg for the combined output
RaisedByMainItself ==
    \/ err \in { ErrNoLabel, ErrNoCaption, ErrFileExists }
    \/ outfile # << >>

\* C16: once pgsql_parser has returned its list, format_latex_table and
\* format_tikz_figure complete for every record and every tuple: no run ends
\* with an exception raised by them.
C16_RenderingIsTotal ==
    (pc = "raised" /\ output_type # "") => RaisedByMainItself

\* C17: a run that ends with an error has written nothing to the output
\* file or stream.
C17_NothingWrittenOnError ==
    pc = "raised" => outfile = << >>

\* the tables have been formatted
Tabled == output_type \in {"all", "All", "table-only"} /\ pc \in {"rendered", "written"}

\* the 0-based position of the column that the directive of record rec names
\* as ypos, -1 when it names none of the schema
YposColumn(rec) ==
    ColumnIndex(tables[configs[rec].relation].schema, Str(directives[rec].body[4]))

\* C18: the table of a relation has the schema without the ypos column as
\* header row, then one row per stored tuple, in input order, holding the
\* cells without the ypos column; row i carries the tag (relation name, i).
C18_TableRows ==
    Tabled =>
        \A k \in DOMAIN table :
            LET t   == table[k]
                rel == tables[configs[t.rec].relation]
                y   == YposColumn(t.rec)
            IN  /\ t.header = Without(rel.schema, 1, {y})
                /\ Len(t.rows) = Len(rel.values)
                /\ \A j \in DOMAIN t.rows :
                        /\ t.rows[j].cells = Without(rel.values[j], 1, {y})
                        /\ t.rows[j].tag = << rel.name, j >>

\* the elements of the given kinds that were made from record rec
ElemsOf(elems, rec, kinds) ==
    { k \in DOMAIN elems : elems[k].rec = rec /\ elems[k].kind \in kinds }

\* C19: the table text holds exactly one table per relation-table record,
\* in the order of the records, and none for a relation record; the figure
\* holds the description and one element per row of every relation record,
\* whichever of the two keywords declared it.
C19_TablesOnlyForRelationTable ==
    /\ Tabled =>
            /\ \A i \in DOMAIN configs :
                    Cardinality(ElemsOf(table, i, {"table"})) =
                        IF configs[i].type = "relation-table" THEN 1 ELSE 0
            /\ \A k \in 1..(Len(table) - 1) : table[k].rec < table[k + 1].rec
    /\ Drawn =>
            \A i \in DOMAIN configs :
                IsRelationRecord(configs[i]) =>
                    /\ Cardinality(ElemsOf(figure.content, i, {"tuple", "point"}))
                            = Len(tables[configs[i].relation].values)
                    /\ Cardinality(ElemsOf(figure.content, i, {"desc"})) =
                            IF IsBlankText(tables[configs[i].relation].desc) THEN 0 ELSE 1

\* a relation record and a relation-table record have been rendered into
\* one table and a figure that shows both
C19_Witness ==
    /\ Tabled
    /\ Drawn
    /\ \E i, j \in DOMAIN configs :
            /\ configs[i].type = "relation"
            /\ configs[j].type = "relation-table"
            /\ ElemsOf(figure.content, i, {"desc"}) # {}
            /\ ElemsOf(figure.content, j, {"desc"}) # {}
            /\ ElemsOf(table, i, {"table"}) = {}
    /\ Len(table) = 1

BlockEnded(i) == Cur = STATE_OUTSIDE /\ tables[i].schema # << >>

\* C21: once the table block of a relation has ended, no step of the parser
\* changes the schema or the rows of that relation.
C21_FrozenAfterBlock ==
    [][\A i \in DOMAIN tables :
            BlockEnded(i) =>
                /\ i \in DOMAIN tables'
                /\ tables'[i].schema = tables[i].schema
                /\ tables'[i].values = tables[i].values]_vars

\* the step dispatches a relation or relation-table directive with fewer
\* than five fields after the keyword
BadRelationDispatched ==
    /\ Len(directives') = Len(directives) + 1
    /\ IsRelationDirective(directives'[Len(directives')])
    /\ Len(directives'[Len(directives')].body) < 5

ShortRelationRead ==
    /\ pc = "parse"
    /\ token'.kind = "COMMENT"
    /\ IsRelationDirective(token'.value)
    /\ Len(token'.value.body) < 5

DirectiveAccepted ==
    /\ Len(directives') = Len(directives) + 1
    /\ pc' # "raised"

\* what follows the n-th comma of a directive's body, commas included
AfterComma(d, n) == SubSeq(d.body, n + 1, Len(d.body))

\* C23: the last field of a directive is never split at commas: the value of
\* a config record is everything after the first comma of the body, the
\* description of a relation everything after the fourth comma, and the
\* description of a timeline record everything after the third comma.
C23_LastFieldKeptWhole ==
    [][DirectiveAccepted =>
            LET d   == directives'[Len(directives')]
                rec == configs'[Len(configs')]
            IN  /\ (d.keyword = "config" /\ Len(d.body) >= 2) =>
                        rec.value = AfterComma(d, 1)
                /\ IsRelationDirective(d) =>
                        tables'[rec.relation].desc = AfterComma(d, 4)
                /\ d.keyword = "timeline" =>
                        rec.desc = AfterComma(d, 3)]_vars

\* a config value, a relation description and a timeline description that
\* contain a comma have all been stored
C23_Witness ==
    /\ \E i \in DOMAIN configs :
            configs[i].type = "config" /\ configs[i].value = <<"Input r", "s">>
    /\ \E i \in DOMAIN configs :
            configs[i].type = "timeline" /\ configs[i].desc = <<"time", "in days">>
    /\ \E i \in DOMAIN tables : tables[i].desc = <<"S", "filtered">>


\* ------------------------------------------------- inputs with config lines
\* input_text: up to MaxConfigs config directives, then one table block
\* that consists of a relation-table directive and a header line
ConfigInputs ==
    LET ConfigLines == { LabelLine, CaptionLine, ScaleLine, RescaleLine }
    IN  { cs \o << RelSLine, HeadLine >> :
            cs \in UNION { [1..n -> ConfigLines] : n \in 0..MaxConfigs } }

ConfigInit ==
    /\ input_text \in ConfigInputs
    /\ Started

ConfigNext ==
    \/ ReadConfig
    \/ ReadRelation
    \/ ReadHeader
    \/ ParserReturn
    \/ MainRender
    \/ MainWrite

ConfigSpec == ConfigInit /\ [][ConfigNext]_vars

\* the config directives with the key, in source order
ConfigsFor(key) ==
    SelectSeq(directives, LAMBDA d : d.keyword = "config" /\ d.body[1] = key)

\* the value of the last config directive with the key
LastValue(key) == AfterComma(ConfigsFor(key)[Len(ConfigsFor(key))], 1)

\* the figure has been formatted by format_tikz_figure
FigureDrawn ==
    /\ pc \in {"rendered", "written"}
    /\ output_type \in {"all", "All", "figure-standalone", "figure-only"}

\* the text for output type 'all' has been written
AllWritten == pc = "written" /\ output_type = "all"

\* C24: when several config directives carry the same key, the value used
\* for rendering is that of the last such directive: the xscale of the
\* figure, and the caption and label written for output type 'all'.
C24_LastConfigWins ==
    /\ (FigureDrawn /\ ConfigsFor("xscale") # << >>) =>
            figure.xscale = LastValue("xscale")
    /\ AllWritten =>
            /\ outfile[2].caption = LastValue("caption")
            /\ outfile[2].label = LastValue("label")
            /\ outfile[2].figure = figure

\* the same for the output types that collect cfg from the config records
C24_LastConfigWinsWhenCollected ==
    (output_type \in {"all", "All"}) => C24_LastConfigWins


\* --------------------------------------------------- inputs of a few lines
TokLines == { BlankLine, TsvMarkerLine, RuleLine, LabelLine,
              HeadLine, RowLine, TabLine, CountLine }

\* input_text: every list of up to MaxLines lines of TokLines
TokInputs == UNION { [1..n -> TokLines] : n \in 0..MaxLines }

TokInit ==
    /\ input_text \in TokInputs
    /\ Started

\* the call pgsql_parser(input_text) for these inputs
TokNext ==
    \/ ReadTsvMarker
    \/ ReadBlank
    \/ ReadRule
    \/ ReadComment
    \/ ReadConfig
    \/ ReadCommand
    \/ ReadHeader
    \/ ReadSkipped
    \/ ReadTupleCount
    \/ ReadTuple
    \/ ParserReturn

\* the program runs on: the loop over the lines is left only at the end
\* of input_text or by an exception
TokSpec == TokInit /\ [][TokNext]_vars /\ WF_vars(TokNext)

\* the step is an iteration of the loop of pgsql_tokenizer
Iteration == lineno' # lineno

\* the line that the iteration of the step has read
LineRead == input_text[lineno']

\* the token is made from the line, with the separator sep
MadeFrom(t, line, sep) ==
    \/ t = NoToken
    \/ t = Token("COMMENT", line)
    \/ line.kind = "data" /\ t = Token("COMMAND", line.text)
    \/ line.kind = "data" /\ t = Token("HEADER", SplitCells(line, sep))
    \/ line.kind = "data" /\ t = Token("TUPLE", SplitCells(line, sep))
    \/ line.kind = "data" /\ t = Token("TUPLECOUNT", line.rows)

\* C25: pgsql_tokenizer makes a single forward pass: every iteration takes
\* the line after the one taken before and yields no token or one token
\* made from that line, no step changes the input or goes back, the parser
\* returns only when every line has been read, and the run over a finite
\* input leaves the loop.
C25_SingleForwardPass ==
    /\ [][/\ input_text' = input_text
          /\ lineno' \in {lineno, lineno + 1}
          /\ lineno' <= Len(input_text)
          /\ Iteration => MadeFrom(token', LineRead, value_sep')
          /\ ~Iteration => (token' = token \/ token' = NoToken)
          /\ pc' # "parse" /\ err' \in {NoError, ErrNoTables, ErrTooFewConfigs}
                => lineno = Len(input_text)]_vars
    /\ <>(pc # "parse")

\* an input of MaxLines lines has been read to its end, its last line
\* yielding a token
C25_Witness ==
    /\ lineno = MaxLines
    /\ Len(input_text) = MaxLines
    /\ token # NoToken
    /\ pc = "parse"


\* the line read before the one that the iteration of the step has read
LineBefore == input_text[lineno]

\* C26: a blank line read in any state yields no token and leaves the
\* tokenizer in STATE_OUTSIDE, and the line after a blank line is never
\* taken as a tuple or a row count of the block before it.
C26_BlankLineEndsBlock ==
    [][Iteration =>
            /\ LineRead.kind = "blank" =>
                    /\ token' = NoToken
                    /\ state' = STATE_OUTSIDE
                    /\ UNCHANGED << parservars, pc, err >>
            /\ (lineno >= 1 /\ LineBefore.kind = "blank") =>
                    /\ state = STATE_OUTSIDE
                    /\ token'.kind \notin {"TUPLE", "TUPLECOUNT"}
                    /\ LineRead.kind = "data" =>
                            token'.kind \in {"HEADER", "COMMAND"}]_vars

\* a data line has been read after a blank line that ended a block whose
\* tuples had begun
C26_Witness ==
    /\ lineno = 4
    /\ input_text[1].kind = "data"
    /\ input_text[2] = RuleLine
    /\ input_text[3].kind = "blank"
    /\ input_text[4] = RowLine
    /\ token = Token("HEADER", RowLine.cells)
    /\ state = STATE_HEADER


\* what a line read in STATE_OUTSIDE yields with PostgreSQL input
OutsideToken(line) ==
    CASE line.kind = "blank" -> NoToken
      [] line.kind = "comment" -> Token("COMMENT", line)
      [] line.kind = "data" /\ IsPgHeader(line) -> Token("HEADER", line.cells)
      [] OTHER -> Token("COMMAND", line.text)

\* C27: the TSV marker is honoured on the first line only.  A first line
\* that matches it makes the input tab-separated and yields no token; any
\* other first line is processed as in STATE_OUTSIDE; the input type and
\* the separator change on no later line.
C27_TsvMarkerOnFirstLineOnly ==
    [][Iteration =>
            IF lineno = 0
            THEN IF IsTsvMarker(LineRead)
                 THEN /\ input_type' = INPUT_TYPE_TSV
                      /\ value_sep' = "\t"
                      /\ token' = NoToken
                      /\ state' = STATE_OUTSIDE
                      /\ UNCHANGED << parservars, pc, err >>
                 ELSE /\ input_type' = INPUT_TYPE_POSTGRES
                      /\ value_sep' = "|"
                      /\ token' = OutsideToken(LineRead)
                      /\ state' = IF token'.kind = "HEADER" THEN STATE_HEADER
                                                            ELSE STATE_OUTSIDE
            ELSE UNCHANGED << input_type, value_sep >>]_vars

\* the marker on the first line has switched the input to TSV, and the
\* marker has been read again later as a comment
C27_Witness ==
    /\ lineno = 3
    /\ input_text[1] = TsvMarkerLine
    /\ input_text[3] = TsvMarkerLine
    /\ input_type = INPUT_TYPE_TSV
    /\ value_sep = "\t"
    /\ token = Token("COMMENT", TsvMarkerLine)

\* the marker on a later line of a PostgreSQL input is a comment
C27_WitnessLate ==
    /\ lineno = 2
    /\ input_text[1] = HeadLine
    /\ input_text[2] = TsvMarkerLine
    /\ input_type = INPUT_TYPE_POSTGRES
    /\ state = STATE_TUPLES


\* the line read by the step is not the TSV marker on the first line
NotMarker == ~(lineno = 0 /\ IsTsvMarker(LineRead))

\* C29: a line that starts with the comment marker never yields HEADER,
\* TUPLE, TUPLECOUNT or COMMAND.  Read in STATE_OUTSIDE it yields one
\* COMMENT token and the state stays STATE_OUTSIDE; read in STATE_HEADER it
\* yields no token and the state becomes STATE_TUPLES.
C29_CommentLines ==
    [][(Iteration /\ LineRead.kind = "comment") =>
            /\ token'.kind \notin {"HEADER", "TUPLE", "TUPLECOUNT", "COMMAND"}
            /\ (Cur = STATE_OUTSIDE /\ NotMarker) =>
                    /\ token' = Token("COMMENT", LineRead)
                    /\ state' = STATE_OUTSIDE
            /\ state = STATE_HEADER =>
                    /\ token' = NoToken
                    /\ state' = STATE_TUPLES
                    /\ UNCHANGED << parservars, pc, err >>]_vars

\* a directive comment has been read right after a header line and has
\* been taken as its rule
C29_Witness ==
    /\ lineno = 2
    /\ input_text[1] = HeadLine
    /\ input_text[2] = LabelLine
    /\ state = STATE_TUPLES
    /\ token = NoToken
    /\ configs = << >>

\* C30: in STATE_TUPLES a data line that matches the row count pattern
\* yields one TUPLECOUNT token and the state becomes STATE_OUTSIDE; any
\* other data line yields one TUPLE token with the stripped fields between
\* the occurrences of the active separator, and the state stays STATE_TUPLES.
C30_TuplesState ==
    [][(Iteration /\ state = STATE_TUPLES /\ LineRead.kind = "data") =>
            IF LineRead.rows # ""
            THEN /\ token' = Token("TUPLECOUNT", LineRead.rows)
                 /\ state' = STATE_OUTSIDE
                 /\ UNCHANGED << parservars, pc, err >>
            ELSE /\ token' = Token("TUPLE",
                        IF LineRead.sep = value_sep THEN LineRead.cells
                                                   ELSE << LineRead.text >>)
                 /\ state' = STATE_TUPLES]_vars

\* in a tab-separated input a line with "|" has been read in STATE_TUPLES
\* as a tuple of one cell
C30_Witness ==
    /\ lineno = 3
    /\ input_text[1] = TsvMarkerLine
    /\ input_text[2] = TabLine
    /\ input_text[3] = RowLine
    /\ token = Token("TUPLE", << RowLine.text >>)
    /\ state = STATE_TUPLES

\* after header and rule the row count line has ended the block
C30_WitnessCount ==
    /\ lineno = 3
    /\ input_text[1] = HeadLine
    /\ input_text[2] = RuleLine
    /\ input_text[3] = CountLine
    /\ token = Token("TUPLECOUNT", "2")
    /\ state = STATE_OUTSIDE


\* ------------------------------------------------------------ p-printhist.py
BUCKETCOUNT == 100

startf    == "-start.csv"
endingf   == "-end.csv"
durationf == "-duration.csv"
overlapf  == "-overlap.csv"

\* the rows of the input file: start and end of an interval, start < end
HistInputs ==
    LET Intervals == { iv \in (0..MaxTime) \X (0..MaxTime) : iv[1] < iv[2] }
    IN  UNION { [1..n -> Intervals] : n \in 0..MaxIntervals }

SeqMin(q) == CHOOSE m \in { q[i] : i \in DOMAIN q } : \A i \in DOMAIN q : m <= q[i]
SeqMax(q) == CHOOSE m \in { q[i] : i \in DOMAIN q } : \A i \in DOMAIN q : m >= q[i]

domainstart  == SeqMin(statistics.starts)
domainlength == SeqMax(statistics.ends) - domainstart
\* math.ceil(domainlength / BUCKETCOUNT)
bucketlength == (domainlength + BUCKETCOUNT - 1) \div BUCKETCOUNT

\* plt.hist(values, BUCKETCOUNT): equal-width bins from the smallest to the
\* largest value (half a unit more on both sides when they are equal), the
\* last bin closed; the edges are kept as numerators over 2 * BUCKETCOUNT
hist(values) ==
    LET lo  == SeqMin(values)
        hi  == SeqMax(values)
        lo2 == IF lo = hi THEN 2 * lo - 1 ELSE 2 * lo
        hi2 == IF lo = hi THEN 2 * hi + 1 ELSE 2 * hi
        bin(v) == IF 2 * v = hi2 THEN BUCKETCOUNT
                  ELSE ((2 * v - lo2) * BUCKETCOUNT) \div (hi2 - lo2) + 1
    IN  [freq |-> [b \in 1..BUCKETCOUNT |->
                      Cardinality({ j \in DOMAIN values : bin(values[j]) = b })],
         bins |-> [b \in 1..(BUCKETCOUNT + 1) |->
                      lo2 * BUCKETCOUNT + (b - 1) * (hi2 - lo2)]]

\* printHistogram without the header line: one row per entry of freq.  The
\* numbers are exact fractions << numerator, denominator >>; "%.3f" gives
\* them in thousandths, rounded.
printHistogram(bins, freq) ==
    LET Millis(x) == (2 * 1000 * x[1] + x[2]) \div (2 * x[2])
    IN  [i \in 1..Len(freq) |-> << Millis(bins[i]), Millis(freq[i]) >>]

\* the histograms in percent, as main computes them
StartHistogram ==
    LET h == hist(statistics.starts)
    IN  printHistogram(
            [b \in DOMAIN h.bins |->
                << (h.bins[b] - 2 * BUCKETCOUNT * domainstart) * 100,
                   2 * BUCKETCOUNT * domainlength >>],
            [b \in DOMAIN h.freq |-> << h.freq[b] * 100, Len(statistics.starts) >>])

EndHistogram ==
    LET h == hist(statistics.ends)
    IN  printHistogram(
            [b \in DOMAIN h.bins |->
                << (h.bins[b] - 2 * BUCKETCOUNT * domainstart) * 100,
                   2 * BUCKETCOUNT * domainlength >>],
            [b \in DOMAIN h.freq |-> << h.freq[b] * 100, Len(statistics.starts) >>])

DurationHistogram ==
    LET h == hist(statistics.lengths)
    IN  printHistogram(
            [b \in DOMAIN h.bins |->
                << h.bins[b] * 100, 2 * BUCKETCOUNT * domainlength >>],
            [b \in DOMAIN h.freq |-> << h.freq[b] * 100, Len(statistics.starts) >>])

\* the end points sorted by time, START (0) before END (1)
epindex ==
    SortSeq([i \in DOMAIN statistics.starts |-> << statistics.starts[i], 0 >>]
                \o [i \in DOMAIN statistics.ends |-> << statistics.ends[i], 1 >>],
            LAMBDA a, b : a[1] < b[1] \/ (a[1] = b[1] /\ a[2] < b[2]))

\* the while loop that closes the buckets before the time point
RECURSIVE CloseBuckets(_, _)
CloseBuckets(time, st) ==
    IF time > domainstart + st.bucket * bucketlength
    THEN IF st.bucket > BUCKETCOUNT THEN [st EXCEPT !.fail = TRUE]
         ELSE CloseBuckets(time, [st EXCEPT !.openints[st.bucket] = st.maxoverlaps,
                                            !.maxoverlaps = st.overlaps,
                                            !.bucket = @ + 1])
    ELSE st

\* the loop over epindex from entry k on
RECURSIVE Sweep(_, _, _)
Sweep(ep, k, st) ==
    IF k > Len(ep) \/ st.fail THEN st
    ELSE LET f == CloseBuckets(ep[k][1], st)
         IN  IF f.fail THEN f
             ELSE IF ep[k][2] = 0
             THEN Sweep(ep, k + 1,
                        [f EXCEPT !.overlaps = @ + 1,
                                  !.maxoverlaps = IF @ < f.overlaps + 1
                                                  THEN f.overlaps + 1 ELSE @])
             ELSE Sweep(ep, k + 1, [f EXCEPT !.overlaps = @ - 1])

openints ==
    LET st == Sweep(epindex, 1,
                    [openints |-> [b \in 1..BUCKETCOUNT |-> 0], bucket |-> 1,
                     overlaps |-> 0, maxoverlaps |-> 0, fail |-> FALSE])
    IN  [st EXCEPT !.openints[BUCKETCOUNT] = st.maxoverlaps]

OverlapHistogram ==
    printHistogram([b \in 1..BUCKETCOUNT |-> << b, 1 >>],
                   [b \in 1..BUCKETCOUNT |->
                       << openints.openints[b] * 100, Len(statistics.starts) >>])

\* open(filename, 'w') and the rows written to it
WriteFile(filename, rows) ==
    histfiles' = [f \in DOMAIN histfiles \cup {filename} |->
                      IF f = filename THEN rows ELSE histfiles[f]]

pwvars == << scanvars, tokvars, token, parservars, mainvars, blocks, directives >>

\* the input file is read into statistics; min() fails on an empty file
HistRead ==
    /\ pc = "hist"
    /\ \E rows \in HistInputs :
        /\ statistics' = [starts  |-> [i \in DOMAIN rows |-> rows[i][1]],
                          ends    |-> [i \in DOMAIN rows |-> rows[i][2]],
                          lengths |-> [i \in DOMAIN rows |-> rows[i][2] - rows[i][1]]]
        /\ IF rows = << >> THEN pc' = "raised" /\ err' = ValueError("min() arg is an empty sequence")
                           ELSE pc' = "read" /\ err' = err
    /\ UNCHANGED << histfiles, pwvars >>

\* the concurrently open intervals per bucket
HistOverlap ==
    /\ pc = "read"
    /\ IF openints.fail
       THEN pc' = "raised" /\ err' = IndexError /\ histfiles' = histfiles
       ELSE pc' = "overlap" /\ err' = err /\ WriteFile(overlapf, OverlapHistogram)
    /\ UNCHANGED << statistics, pwvars >>

\* "Create start-points histogram in percentage"
HistStarts ==
    /\ pc = "overlap"
    /\ WriteFile(endingf, StartHistogram)
    /\ pc' = "starts"
    /\ UNCHANGED << statistics, err, pwvars >>

\* "Create ending-points histogram in percentage"
HistEnds ==
    /\ pc = "starts"
    /\ WriteFile(startf, EndHistogram)
    /\ pc' = "ends"
    /\ UNCHANGED << statistics, err, pwvars >>

\* "Create duration histogram in percentage", then sys.exit(0)
HistDuration ==
    /\ pc = "ends"
    /\ WriteFile(durationf, DurationHistogram)
    /\ pc' = "done"
    /\ UNCHANGED << statistics, err, pwvars >>

HistInit ==
    /\ pc = "hist"
    /\ err = NoError
    /\ statistics = NoStatistics
    /\ histfiles = << >>
    /\ input_text = Unknown
    /\ lineno = 0
    /\ state = STATE_FIRSTLINE
    /\ input_type = INPUT_TYPE_POSTGRES
    /\ value_sep = "|"
    /\ token = NoToken
    /\ configs = << >>
    /\ tables = << >>
    /\ table_count = 0
    /\ configs_count_relation = 0
    /\ configs_count_timeline = 0
    /\ output_type = ""
    /\ table = << >>
    /\ cfg = << >>
    /\ figure = << >>
    /\ outfile = << >>
    /\ blocks = << >>
    /\ directives = << >>

HistNext ==
    \/ HistRead
    \/ HistOverlap
    \/ HistStarts
    \/ HistEnds
    \/ HistDuration

HistSpec == HistInit /\ [][HistNext]_vars

\* C28: when p-printhist.py has finished, every file holds the histogram
\* it is named after: -start.csv the start points, -end.csv the ending
\* points, -duration.csv the durations, -overlap.csv the concurrently open
\* intervals.
C28_FilesNamedAfterHistograms ==
    pc = "done" =>
        /\ histfiles[startf] = StartHistogram
        /\ histfiles[endingf] = EndHistogram
        /\ histfiles[durationf] = DurationHistogram
        /\ histfiles[overlapf] = OverlapHistogram

\* the same for the two files whose names are not exchanged
C28_DurationAndOverlapFiles ==
    pc = "done" =>
        /\ histfiles[durationf] = DurationHistogram
        /\ histfiles[overlapf] = OverlapHistogram
        /\ histfiles[startf] = EndHistogram
        /\ histfiles[endingf] = StartHistogram

\* ---------------------------------------------------------------- C31
\* an iteration of pgsql_tokenizer in tab-separated mode that reads a line
\* which is neither blank nor a comment
TsvDataRead == /\ Iteration
               /\ input_type = INPUT_TYPE_TSV
               /\ LineRead.kind = "data"

\* C31: in TSV mode a non-blank non-comment line read in STATE_OUTSIDE is
\* emitted as Header and the tokenizer goes to STATE_TUPLES; every such line
\* read in STATE_TUPLES is emitted as a Tuple token; and the tokenizer
\* leaves STATE_TUPLES on a blank line only.
C31_TsvBlock ==
    [][/\ (TsvDataRead /\ Cur = STATE_OUTSIDE) =>
            /\ token' = Token("HEADER", SplitCells(LineRead, "\t"))
            /\ state' = STATE_TUPLES
       /\ (TsvDataRead /\ state = STATE_TUPLES) =>
            token' = Token("TUPLE", SplitCells(LineRead, "\t"))
       /\ (Iteration /\ input_type = INPUT_TYPE_TSV
             /\ state = STATE_TUPLES /\ state' # STATE_TUPLES) =>
            LineRead = BlankLine]_vars

\* the part of C31 about the header: in TSV mode a data line read in
\* STATE_OUTSIDE is a Header token, never a Command, and the next state is
\* STATE_TUPLES; a data line read in STATE_TUPLES that does not match the
\* row count pattern is a Tuple token and the state stays
C31_TsvHeaderThenTuples ==
    [][/\ (TsvDataRead /\ Cur = STATE_OUTSIDE) =>
            /\ token' = Token("HEADER", SplitCells(LineRead, "\t"))
            /\ state' = STATE_TUPLES
       /\ (TsvDataRead /\ state = STATE_TUPLES /\ LineRead.rows = "") =>
            /\ token' = Token("TUPLE", SplitCells(LineRead, "\t"))
            /\ state' = STATE_TUPLES]_vars

\* in a tab-separated input the line "(2 rows)" after the header has been
\* taken as a row count: the block is over without a blank line
C31_CountEndsTsvBlock ==
    /\ lineno = 3
    /\ input_text[1] = TsvMarkerLine
    /\ input_text[2] = TabLine
    /\ input_text[3] = CountLine
    /\ input_type = INPUT_TYPE_TSV
    /\ token = Token("TUPLECOUNT", CountLine.rows)
    /\ state = STATE_OUTSIDE

\* ---------------------------------------------------------------- C32
\* a token that carries no structure: COMMAND, TUPLECOUNT, a COMMENT whose
\* text does not match the directive pattern, or a directive whose keyword
\* is none of config, relation, relation-table, timeline
Structureless(t) ==
    \/ t.kind \in {"COMMAND", "TUPLECOUNT"}
    \/ /\ t.kind = "COMMENT"
       /\ \/ ~t.value.tikz
          \/ t.value.keyword \notin {"config", "relation", "relation-table", "timeline"}

\* C32: a Command token, a TupleCount token, a Comment that is no directive
\* and a directive of unrecognised keyword leave configs, tables,
\* table_count, configs_count_relation and configs_count_timeline of
\* pgsql_parser as they were, and no error is raised.
C32_StructurelessTokensIgnored ==
    [][(pc = "parse" /\ Structureless(token')) =>
            /\ UNCHANGED << configs, tables, table_count,
                            configs_count_relation, configs_count_timeline >>
            /\ pc' = "parse"
            /\ err' = NoError]_vars

\* a directive of unrecognised keyword has been read after a relation
\* directive and a table header: records and store are there, the loop goes on
C32_Witness ==
    /\ token = Token("COMMENT", LegendLine)
    /\ Len(configs) > 0
    /\ Len(tables) > 0
    /\ Len(blocks) > 0
    /\ pc = "parse"

\* a row count line has ended a block with a tuple
C32_WitnessCount ==
    /\ token.kind = "TUPLECOUNT"
    /\ Len(configs) > 0
    /\ Len(blocks) > 0
    /\ Len(blocks[Len(blocks)].rows) > 0
    /\ pc = "parse"

\* a line without column delimiter has been yielded as a command while
\* records are there
C32_WitnessCommand ==
    /\ token.kind = "COMMAND"
    /\ Len(configs) > 0
    /\ pc = "parse"

\* ---------------------------------------------------------------- C33
\* the 0-based positions of the columns that the directive of the tuple
\* element names as ts, te and ypos column (fields 2, 3, 4)
NamedColumns(e) ==
    { ColumnIndex(SourceRel(e).schema, Str(SourceDir(e).body[n])) : n \in 2..4 } \ { -1 }

\* C33: the label of a drawn tuple is made, in column order, of exactly
\* the cells whose column is neither the ts, the te nor the ypos column of
\* the relation; it has no attribute group when there is no such cell.
C33_LabelOfOtherColumns ==
    Drawn =>
        \A k \in DOMAIN figure.content :
            LET e == figure.content[k]
            IN  IsTupleElem(e) =>
                    e.attribs = Without(SourceTup(e), 1, NamedColumns(e))

\* what the program draws: the label holds every cell of the row, the
\* cells of the ts, te and ypos columns included
C33_LabelOfAllColumns ==
    Drawn =>
        \A k \in DOMAIN figure.content :
            LET e == figure.content[k]
            IN  IsTupleElem(e) => e.attribs = SourceTup(e)

\* a row has been drawn whose relation has a ts and a te column in the
\* header, and the label holds the cells of both
C33_LabelHoldsTemporalCells ==
    /\ Drawn
    /\ \E k \in DOMAIN figure.content :
            LET e == figure.content[k]
            IN  /\ IsTupleElem(e)
                /\ HasNamed(e, 2) /\ HasNamed(e, 3)
                /\ Len(e.attribs) = Len(SourceTup(e))
                /\ Len(e.attribs) > Len(Without(SourceTup(e), 1, NamedColumns(e)))

\* ---------------------------------------------------------------- C34
\* the description elements and the tuple elements drawn for record i
DescElems(i) ==
    { k \in DOMAIN figure.content :
        figure.content[k].kind = "desc" /\ figure.content[k].rec = i }
TupleElemsOf(i) ==
    { k \in DOMAIN figure.content :
        IsTupleElem(figure.content[k]) /\ figure.content[k].rec = i }

\* the coordinate at which row j of record i is drawn
DrawnAt(i, j) ==
    LET k == CHOOSE k \in TupleElemsOf(i) : figure.content[k].id = j
    IN  figure.content[k].count

\* C34: a relation with a non-empty description gets one description
\* element, anchored at the mean of the coordinates at which its first and
\* its last tuple are drawn (twice the position is their sum); a relation
\* with an empty description gets none.
C34_DescriptionAtMidpoint ==
    Drawn =>
        \A i \in DOMAIN configs :
            IsRelationRecord(configs[i]) =>
                LET rel == tables[configs[i].relation]
                    n   == Len(rel.values)
                IN  IF IsBlankText(rel.desc) THEN DescElems(i) = { }
                    ELSE /\ Cardinality(DescElems(i)) = 1
                         /\ \A k \in DescElems(i) :
                                /\ figure.content[k].desc = rel.desc
                                /\ n > 0 => figure.content[k].pos2
                                                = DrawnAt(i, 1) + DrawnAt(i, n)

\* a figure with a described relation of two rows (midpoint between two
\* coordinates) and a relation without description that has rows
C34_Witness ==
    /\ Drawn
    /\ \E i, j \in DOMAIN configs :
            /\ IsRelationRecord(configs[i]) /\ IsRelationRecord(configs[j])
            /\ Len(tables[configs[i].relation].values) = 2
            /\ ~IsBlankText(tables[configs[i].relation].desc)
            /\ \E k \in DescElems(i) : figure.content[k].pos2 % 2 = 1
            /\ IsBlankText(tables[configs[j].relation].desc)
            /\ Len(tables[configs[j].relation].values) > 0
            /\ TupleElemsOf(j) # { }
            /\ DescElems(j) = { }

\* ---------------------------------------------------------------- C35
\* the positions of the relation and relation-table records in configs
RelationPositions == { i \in DOMAIN configs : IsRelationRecord(configs[i]) }

\* C35: in a document returned by pgsql_parser no two relation records
\* refer to the same Relation, and every Relation of the store is referred
\* to by exactly one record.
C35_OneRelationPerRecord ==
    ParserReturned =>
        /\ \A i, j \in RelationPositions :
                configs[i].relation = configs[j].relation => i = j
        /\ \A k \in DOMAIN tables :
                Cardinality({ i \in RelationPositions : configs[i].relation = k }) = 1

\* a document with two relation records and a table block has been returned
C35_Witness ==
    /\ pc = "returned"
    /\ Cardinality(RelationPositions) >= 2
    /\ Len(tables) >= 2
    /\ Len(blocks) >= 1

\* ---------------------------------------------------------------- C36
\* C36: while pgsql_parser consumes tokens, and after it, the number of
\* Relation objects in the store is configs_count_relation + table_count.
C36_StoreSizeIsSumOfCounters ==
    Len(tables) = configs_count_relation + table_count

\* the directive branch has made two Relations and a Header token has
\* filled one of them without making a third
C36_Witness ==
    /\ pc = "parse"
    /\ configs_count_relation = 2
    /\ table_count = 0
    /\ Len(tables) = 2
    /\ Len(blocks) >= 1

\* the header branch has made two Relations, no directive was read
C36_WitnessHeaders ==
    /\ pc = "parse"
    /\ table_count = 2
    /\ configs_count_relation = 0
    /\ Len(tables) = 2

\* ---------------------------------------------------------------- C37
\* the rows of all Tuple tokens of the input, in order
RECURSIVE RowsOfBlocks(_)
RowsOfBlocks(bs) ==
    IF bs = << >> THEN << >> ELSE bs[1].rows \o RowsOfBlocks(Tail(bs))

C37_WitnessTwoBlocks ==
    /\ pc = "returned"
    /\ Cardinality(RelationPositions) = 2
    /\ Len(blocks) = 2
    /\ blocks[2].ndirs = 2
    /\ tables[1].schema = blocks[2].header
    /\ tables[2].schema = << >>

\* ---------------------------------------------------------------- C38
\* the lines read after line h, the line just read left out
Between(h) == (h + 1)..(lineno - 1)

\* no line of the set is blank
NoBlank(ks) == \A k \in ks : input_text[k] # BlankLine

\* no data line of the set matches the row count pattern
NoCount(ks) == \A k \in ks : input_text[k].kind = "data" => input_text[k].rows = ""

\* line h has given the Header token of the last block
HeaderFrom(h) ==
    /\ input_text[h].kind = "data"
    /\ blocks # << >>
    /\ blocks[Len(blocks)].header = SplitCells(input_text[h], value_sep)

\* the Tuple token just yielded has its Header token before it: no blank
\* line lies between, no line between was a row count, and in PostgreSQL
\* mode a "--" line lies between
TupleHasHeader ==
    (token.kind = "TUPLE" /\ lineno > 0) =>
        \E h \in 1..(lineno - 1) :
            /\ HeaderFrom(h)
            /\ NoBlank(Between(h))
            /\ IF input_type = INPUT_TYPE_TSV THEN NoCount(Between(h))
               ELSE \E r \in Between(h) :
                        /\ input_text[r].kind = "comment"
                        /\ NoCount((r + 1)..(lineno - 1))

\* the states of a table block
InBlock(s) == s \in {STATE_HEADER, STATE_TUPLES}

\* C38: every Tuple token is preceded by a Header token with no TupleCount
\* token and no blank line between them; in PostgreSQL mode a "--" line lies
\* between that Header and the first Tuple, and a data line that follows
\* the header without such a line yields no token.
C38_TupleAfterHeader ==
    /\ []TupleHasHeader
    /\ [][Iteration =>
            /\ token'.kind = "TUPLE" => state = STATE_TUPLES /\ state' = STATE_TUPLES
            /\ (~InBlock(Cur) /\ InBlock(state')) => token'.kind = "HEADER"
            /\ (LineRead = BlankLine \/ token'.kind = "TUPLECOUNT") => state' = STATE_OUTSIDE
            /\ (token'.kind = "HEADER" /\ input_type' = INPUT_TYPE_POSTGRES) =>
                    state' = STATE_HEADER
            /\ (state = STATE_HEADER /\ state' = STATE_TUPLES) => LineRead.kind = "comment"
            /\ (state = STATE_HEADER /\ LineRead.kind = "data") =>
                    /\ token' = NoToken
                    /\ state' = STATE_HEADER
                    /\ UNCHANGED << parservars, pc, err >>]_vars

\* PostgreSQL input: header, a data line without token, the rule, and then
\* the first Tuple token
C38_Witness ==
    /\ lineno = 4
    /\ input_text[1] = HeadLine
    /\ input_text[2] = RowLine
    /\ input_text[3] = RuleLine
    /\ input_text[4] = RowLine
    /\ token = Token("TUPLE", RowLine.cells)
    /\ blocks = << [header |-> HeadLine.cells, rows |-> << RowLine.cells >>, ndirs |-> 0] >>

\* the data line between header and rule has yielded no token
C38_WitnessSkipped ==
    /\ lineno = 2
    /\ input_text[1] = HeadLine
    /\ input_text[2] = RowLine
    /\ token = NoToken
    /\ state = STATE_HEADER

\* ---------------------------------------------------------------- C39
\* C39: a comment line read in STATE_HEADER or STATE_TUPLES yields no
\* token: a directive comment inside a table block does not reach
\* pgsql_parser, which keeps its records, store and counters and raises no
\* error; in STATE_TUPLES the state stays as it is.
C39_CommentInsideBlock ==
    [][(Iteration /\ LineRead.kind = "comment" /\ InBlock(state)) =>
            /\ token' = NoToken
            /\ directives' = directives
            /\ UNCHANGED << parservars, blocks, pc, err >>
            /\ state = STATE_TUPLES => state' = STATE_TUPLES]_vars

\* a config directive has been read after header and rule, in STATE_TUPLES:
\* no token, no record, the block goes on
C39_Witness ==
    /\ lineno = 3
    /\ input_text[1] = HeadLine
    /\ input_text[2] = RuleLine
    /\ input_text[3] = LabelLine
    /\ state = STATE_TUPLES
    /\ token = NoToken
    /\ configs = << >>
    /\ directives = << >>

\* the same in a tab-separated block, where the header starts the tuples
C39_WitnessTsv ==
    /\ lineno = 3
    /\ input_text[1] = TsvMarkerLine
    /\ input_text[2] = TabLine
    /\ input_text[3] = LabelLine
    /\ state = STATE_TUPLES
    /\ token = NoToken
    /\ configs = << >>

====
